---- MODULE Spec2Model ----
(***************************************************************************)
(* A model of the pixel-cloud rasterizer of src/src/raster.py:             *)
(* L2PixcToRaster.process (coarse pass, geolocation refinement, final      *)
(* pass) and RasterProcessor (grid projection, bin mapping, per-cell       *)
(* aggregation, corrections, product assembly).                            *)
(*                                                                         *)
(* Numbers.  The code computes in floating point; the model computes in    *)
(* exact integers.  Geographic coordinates are whole degrees, projected    *)
(* (UTM) coordinates whole metres, resolutions whole multiples of 3600     *)
(* (arc-seconds in 'geo', metres in 'utm').  Python's round() is modelled  *)
(* as round-half-to-even (Python 3, numpy).                                *)
(*                                                                         *)
(* Values.  A numpy element is a record: Num(n), NaN or Masked (the        *)
(* numpy.ma mask, written as the channel's fill value on output).  The     *)
(* external aggregation routines (SWOTWater.aggregate) are black boxes:    *)
(* the value they return is the record of the arguments they were given.   *)
(***************************************************************************)
EXTENDS Integers, Sequences, FiniteSets, TLC

VARIABLES pc, runtime_config, algorithmic_config, pixc,
          improved_geoloc_pixc, raster_proc, coarse, product, log

vars == <<pc, runtime_config, algorithmic_config, pixc,
          improved_geoloc_pixc, raster_proc, coarse, product, log>>

----------------------------------------------------------------------------
(* numpy element values *)

Num(n) == [k |-> "num", v |-> n]
NaN == [k |-> "nan"]
Masked == [k |-> "masked"]
None == [k |-> "none"]

IsNum(x) == x.k = "num"

(* the value of f, computed once: TLC evaluates a function expression      *)
(* again at every application of it                                        *)
Eager(f) == IF f = f THEN f ELSE f

(* int(round(n / d)) for d > 0, ties to the even neighbour *)
Round(n, d) ==
    LET q == n \div d
        r == n % d
    IN  IF 2 * r < d THEN q
        ELSE IF 2 * r > d THEN q + 1
        ELSE IF q % 2 = 0 THEN q ELSE q + 1

SetMin(S) == CHOOSE m \in S : \A s \in S : m <= s
SetMax(S) == CHOOSE m \in S : \A s \in S : m >= s

(* np.mod(longitude + 180, 360) - 180 *)
lon_360to180(longitude) == ((longitude + 180) % 360) - 180

----------------------------------------------------------------------------
(* program constants *)

INTERIOR_WATER_KLASS == 1
WATER_EDGE_KLASS == 2
LAND_EDGE_KLASS == 3

(* SWOTWater.constants.PIXC_CLASSES, as named in parse_config_defaults;   *)
(* the numbers stand for the package's distinct class codes               *)
PIXC_CLASSES ==
    [land |-> 1, land_near_water |-> 2, water_near_land |-> 3,
     open_water |-> 4, dark_water |-> 5, dark_water_edge |-> 6,
     land_near_dark_water |-> 7]

(* the polar bounds of get_pixc_mask *)
LatUpper == 84
LatLower == -80

ArcsecPerDegree == 60 * 60

(* raster_crs: the UTM zones and the MGRS latitude bands *)
UTM_NUM_ZONES == 60
UTM_VALID_BANDS ==
    <<"C", "D", "E", "F", "G", "H", "J", "K", "L", "M",
      "N", "P", "Q", "R", "S", "T", "U", "V", "W", "X">>

(* str.find: the 0-based index of a letter, -1 when absent *)
BandFind(letter) ==
    IF \E n \in 1..Len(UTM_VALID_BANDS) : UTM_VALID_BANDS[n] = letter
    THEN (CHOOSE n \in 1..Len(UTM_VALID_BANDS) : UTM_VALID_BANDS[n] = letter) - 1
    ELSE -1

(* utm.latlon_to_zone_number of the centroid, whose coordinates are the    *)
(* corner sums divided by 4.0: int((lon + 180) / 6) + 1, but for the zones *)
(* widened over Norway (32) and Svalbard (31, 33, 35, 37)                  *)
latlon_to_zone_number(lat_sum, lon_sum) ==
    IF 4 * 56 <= lat_sum /\ lat_sum < 4 * 64 /\ 4 * 3 <= lon_sum /\ lon_sum < 4 * 12 THEN 32
    ELSE IF 4 * 72 <= lat_sum /\ lat_sum <= 4 * 84 /\ 0 <= lon_sum /\ lon_sum < 4 * 42
    THEN (IF lon_sum < 4 * 9 THEN 31 ELSE IF lon_sum < 4 * 21 THEN 33
          ELSE IF lon_sum < 4 * 33 THEN 35 ELSE 37)
    ELSE ((lon_sum + 720) \div 24) + 1

(* utm.latitude_to_zone_letter of the centroid: the letter at              *)
(* int(lat + 80) >> 3 of "CDEFGHJKLMNPQRSTUVWXX"                           *)
latitude_to_zone_letter(lat_sum) ==
    LET n == ((lat_sum + 320) \div 4) \div 8
    IN  IF n >= Len(UTM_VALID_BANDS) THEN "X" ELSE UTM_VALID_BANDS[n + 1]

(* raster_crs.utm_hemisphere: bands N..X are northern *)
utm_hemisphere(mgrs_band) == IF BandFind(mgrs_band) >= BandFind("N") THEN "N" ELSE "S"

(* the UTM coordinate system's projection parameters *)
FalseEasting == 500000
FalseNorthing(mgrs_band) == IF utm_hemisphere(mgrs_band) = "N" THEN 0 ELSE 10000000
CentralMeridian(utm_zone) == 6 * utm_zone - 183

(* osr.CoordinateTransformation(wgs84, utm).TransformPoint(lat, lon)[:2],  *)
(* abstracted as an affine map of the fixed zone: MetresPerDegree metres   *)
(* to the degree from the central meridian and from the equator.           *)
MetresPerDegree == 3600
TransformPoint(utm_zone, mgrs_band, lat, lon) ==
    <<FalseEasting + MetresPerDegree * (lon - CentralMeridian(utm_zone)),
      FalseNorthing(mgrs_band) + MetresPerDegree * lat>>

----------------------------------------------------------------------------
(* RasterProcessor.__init__ *)

(* the names of the per-cell output arrays kept on the processor *)
ScalarMeans ==
    {"cross_track", "sig0", "inc", "illumination_time", "illumination_time_tai",
     "geoid", "solid_earth_tide", "load_tide_sol1", "load_tide_sol2", "pole_tide",
     "model_dry_tropo_cor", "model_wet_tropo_cor", "iono_cor_gim_ka"}
Channels ==
    ScalarMeans \cup
    {"wse", "wse_uncert", "n_wse_pix", "water_area", "water_area_uncert",
     "water_frac", "water_frac_uncert", "n_area_pix", "sig0_uncert", "dark_frac",
     "longitude", "latitude", "classification"}

RasterProcessorInit(projection_type, resolution, utm_zone_adjust, latitude_band_adjust, buffer_size, height_agg_method, area_agg_method, interior_water_classes, water_edge_classes, land_edge_classes, dark_water_classes, debug_flag) ==
    [projection_type |-> projection_type,
     resolution |-> IF projection_type = "geo" THEN resolution \div ArcsecPerDegree
                    ELSE IF projection_type = "utm" THEN resolution
                    ELSE 0,    \* no resolution is set for another projection type
     utm_zone_adjust |-> IF projection_type = "utm" THEN utm_zone_adjust ELSE 0,
     latitude_band_adjust |-> IF projection_type = "utm" THEN latitude_band_adjust ELSE 0,
     buffer_size |-> buffer_size,
     height_agg_method |-> height_agg_method,
     area_agg_method |-> area_agg_method,
     interior_water_classes |-> interior_water_classes,
     water_edge_classes |-> water_edge_classes,
     land_edge_classes |-> land_edge_classes,
     dark_water_classes |-> dark_water_classes,
     debug_flag |-> debug_flag,
     scene |-> None,
     grid |-> None,
     proj_mapping |-> None,
     chan |-> [ch \in Channels |-> None]]

(* the scene metadata rasterize copies from the pixel cloud *)
SceneOf(px) ==
    [meta |-> px.meta,
     geospatial_lat_min |-> px.geospatial_lat_min,
     geospatial_lat_max |-> px.geospatial_lat_max,
     geospatial_lon_min |-> px.geospatial_lon_min,
     geospatial_lon_max |-> px.geospatial_lon_max]

(* the corners rasterize hands to create_projection_from_bbox *)
Corners(px) ==
    <<<<px.geospatial_lat_min, lon_360to180(px.geospatial_lon_min)>>,
      <<px.geospatial_lat_min, lon_360to180(px.geospatial_lon_max)>>,
      <<px.geospatial_lat_max, lon_360to180(px.geospatial_lon_max)>>,
      <<px.geospatial_lat_max, lon_360to180(px.geospatial_lon_min)>>>>

(* AdjustZone without the shift to and from 0-indexed zones *)
AdjustZoneUnshifted(utm_zone, utm_zone_adjust) ==
    (utm_zone + utm_zone_adjust) % UTM_NUM_ZONES

(* the zone adjustment: np.mod(zone + adjust - 1, UTM_NUM_ZONES) + 1 *)
AdjustZone(utm_zone, utm_zone_adjust) ==
    ((utm_zone + utm_zone_adjust - 1) % UTM_NUM_ZONES) + 1

(* the band adjustment, clamped to the valid bands *)
AdjustBand(mgrs_band, latitude_band_adjust) ==
    LET band_num == BandFind(mgrs_band) + latitude_band_adjust
    IN  IF band_num < 0 THEN 0
        ELSE IF band_num >= Len(UTM_VALID_BANDS) THEN Len(UTM_VALID_BANDS) - 1
        ELSE band_num

(* RoundLimit without the rounding to the bins *)
RoundLimitNone(limit, center, resolution) == limit

(* round a limit to the nearest bin centred at the projection centre *)
RoundLimit(limit, center, resolution) ==
    Round(limit - center, resolution) * resolution + center

(* the extent of an axis: the rounded limits with the buffer added *)
AxisMin(limit, center, self) ==
    RoundLimit(limit, center, self.resolution) - self.buffer_size
AxisMax(limit, center, self) ==
    RoundLimit(limit, center, self.resolution) + self.buffer_size

AxisSize(lo, hi, resolution) == Round(hi - lo, resolution) + 1

(* RasterProcessor.create_projection_from_bbox: the grid descriptor, or    *)
(* the exception raised for an unknown projection type                     *)
create_projection_from_bbox(self, corners) ==
    IF self.projection_type # "utm" /\ self.projection_type # "geo"
    THEN [k |-> "raised", exc |-> "Unknown projection type"]
    ELSE
    LET lons == {corners[n][2] : n \in 1..4}
        lats == {corners[n][1] : n \in 1..4}
        x_min0 == SetMin(lons)
        x_max0 == SetMax(lons)
        y_min0 == SetMin(lats)
        y_max0 == SetMax(lats)
    IN  IF self.projection_type = "utm"
        THEN
        LET lat_sum == corners[1][1] + corners[2][1] + corners[3][1] + corners[4][1]
            lon_sum == corners[1][2] + corners[2][2] + corners[3][2] + corners[4][2]
            zone0 == latlon_to_zone_number(lat_sum, lon_sum)
            band0 == latitude_to_zone_letter(lat_sum)
            utm_zone == AdjustZone(zone0, self.utm_zone_adjust)
            band_num == AdjustBand(band0, self.latitude_band_adjust)
            mgrs_band == UTM_VALID_BANDS[band_num + 1]
            lo == TransformPoint(utm_zone, mgrs_band, y_min0, x_min0)
            hi == TransformPoint(utm_zone, mgrs_band, y_max0, x_max0)
            cx == FalseEasting
            cy == FalseNorthing(mgrs_band)
            x_min == AxisMin(lo[1], cx, self)
            x_max == AxisMax(hi[1], cx, self)
            y_min == AxisMin(lo[2], cy, self)
            y_max == AxisMax(hi[2], cy, self)
        IN  [k |-> "utm",
             x_min |-> x_min, x_max |-> x_max, y_min |-> y_min, y_max |-> y_max,
             size_x |-> AxisSize(x_min, x_max, self.resolution),
             size_y |-> AxisSize(y_min, y_max, self.resolution),
             centroid_zone |-> zone0, centroid_band |-> band0,
             utm_zone |-> utm_zone, mgrs_band |-> mgrs_band,
             utm_hemisphere |-> utm_hemisphere(mgrs_band)]
        ELSE
        LET x_min == AxisMin(x_min0, 0, self)
            x_max == AxisMax(x_max0, 0, self)
            y_min == AxisMin(y_min0, 0, self)
            y_max == AxisMax(y_max0, 0, self)
        IN  [k |-> "geo",
             x_min |-> x_min, x_max |-> x_max, y_min |-> y_min, y_max |-> y_max,
             size_x |-> AxisSize(x_min, x_max, self.resolution),
             size_y |-> AxisSize(y_min, y_max, self.resolution)]

----------------------------------------------------------------------------
(* the pixel cloud: parallel arrays under pixel_cloud, the bounding box    *)
(* and the scalar metadata.  latitude, longitude, height, classification,  *)
(* pixel_area and water_frac hold values; entry n of any other array is    *)
(* the symbol Elem(field, n).                                              *)

Elem(field, n) == [k |-> "elem", field |-> field, idx |-> n]

NumPoints(px) == Len(px.pixel_cloud.latitude)

Field(px, field) ==
    IF field \in DOMAIN px.pixel_cloud THEN px.pixel_cloud[field]
    ELSE [n \in 1..NumPoints(px) |-> Elem(field, n)]

(* arr[idx]: the entries of an array at a list of indices *)
Take(arr, idx) == [m \in 1..Len(idx) |-> arr[idx[m]]]

(* arr[good]: the entries of an array a boolean array selects *)
Where(arr, good) ==
    LET idx == SelectSeq([m \in 1..Len(arr) |-> m], LAMBDA m : good[m])
    IN  [m \in 1..Len(idx) |-> arr[idx[m]]]

(* PointValid with the polar bounds themselves taken for valid *)
PointValidInclusive(lat, lon, height, area, klass) ==
    /\ lat.k # "masked"
    /\ lon.k # "masked"
    /\ height.k # "masked"
    /\ area.k # "masked"
    /\ lat.k # "nan"
    /\ lon.k # "nan"
    /\ klass.k # "nan"
    /\ ~(IsNum(lat) /\ lat.v > LatUpper)
    /\ ~(IsNum(lat) /\ lat.v < LatLower)

(* get_pixc_mask *)
PointValid(lat, lon, height, area, klass) ==
    /\ lat.k # "masked"
    /\ lon.k # "masked"
    /\ height.k # "masked"
    /\ area.k # "masked"
    /\ lat.k # "nan"
    /\ lon.k # "nan"
    /\ klass.k # "nan"
    /\ ~(IsNum(lat) /\ lat.v >= LatUpper)
    /\ ~(IsNum(lat) /\ lat.v <= LatLower)

get_pixc_mask(px) ==
    [n \in 1..NumPoints(px) |->
        PointValid(px.pixel_cloud.latitude[n], px.pixel_cloud.longitude[n],
                   px.pixel_cloud.height[n], px.pixel_cloud.pixel_area[n],
                   px.pixel_cloud.classification[n])]

(* np.isin(x, classes) *)
IsIn(x, classes) == IsNum(x) /\ x.v \in classes

(* ProcessorClasses taken for every class of the pixel cloud *)
ProcessorClassesEvery(self) == {PIXC_CLASSES[name] : name \in DOMAIN PIXC_CLASSES}

(* the classes defined in the processor *)
ProcessorClasses(self) ==
    self.interior_water_classes \cup self.water_edge_classes
        \cup self.land_edge_classes \cup self.dark_water_classes

(* ClassMask without the exclusion of the classes the processor does not   *)
(* define                                                                  *)
ClassMaskAnyClass(self, px) == get_pixc_mask(px)

(* rasterize: the mask of valid pixc values of the classes defined in the  *)
(* processor                                                               *)
ClassMask(self, px) ==
    [n \in 1..NumPoints(px) |->
        get_pixc_mask(px)[n]
        /\ IsIn(px.pixel_cloud.classification[n], ProcessorClasses(self))]

(* ImprovedMask of the improved geolocation's validity alone *)
ImprovedMaskAlone(pixc_mask, imp) == get_pixc_mask(imp)

(* rasterize: the mask with the improved geolocation's validity *)
ImprovedMask(pixc_mask, imp) ==
    [n \in 1..Len(pixc_mask) |-> pixc_mask[n] /\ get_pixc_mask(imp)[n]]

----------------------------------------------------------------------------
(* the bin map: raster_products' get_raster_mapping *)

Cells(grid) == (0..(grid.size_y - 1)) \X (0..(grid.size_x - 1))

(* a point's position in the grid's coordinates (the grid's fixed zone) *)
PointXY(grid, px, n) ==
    IF grid.k = "utm"
    THEN TransformPoint(grid.utm_zone, grid.mgrs_band,
                        px.pixel_cloud.latitude[n].v, px.pixel_cloud.longitude[n].v)
    ELSE <<px.pixel_cloud.longitude[n].v, px.pixel_cloud.latitude[n].v>>

(* a point's cell indices <<i, j>> *)
PointCell(grid, resolution, px, n) ==
    LET xy == PointXY(grid, px, n)
    IN  <<Round(xy[2] - grid.y_min, resolution), Round(xy[1] - grid.x_min, resolution)>>

get_raster_mapping(grid, resolution, px, mask) ==
    [c \in Cells(grid) |->
        LET InCell(n) == mask[n] /\ PointCell(grid, resolution, px, n) = c
        IN  SelectSeq([n \in 1..NumPoints(px) |-> n], InCell)]

----------------------------------------------------------------------------
(* the cell aggregator *)

masked_all(grid) == [c \in Cells(grid) |-> Masked]

Populated(self, c) == Len(self.proj_mapping[c]) # 0

(* ag.simple(values, metric): the mean (or mode) of no value is NaN *)
simple(values, metric) ==
    IF Len(values) = 0 THEN NaN
    ELSE [k |-> "simple", metric |-> metric, of |-> values]

(* ag.simple(good, metric='sum'): the number of good points *)
CountGood(good) == Num(Cardinality({m \in 1..Len(good) : good[m]}))

(* geoloc.convert_llh2ecef: the 3-D target of every point *)
TargetXYZ(px) ==
    [n \in 1..NumPoints(px) |->
        <<px.pixel_cloud.latitude[n], px.pixel_cloud.longitude[n],
          px.pixel_cloud.height[n]>>]

(* ag.flatten_interferogram: the interferogram flattened at the targets *)
FlatIfgram(px, target_xyz) ==
    [n \in 1..NumPoints(px) |-> [k |-> "flat", idx |-> n, target |-> target_xyz[n]]]

(* WseMask excluding the land edges and nothing else *)
WseMaskNotLandEdge(self, px, mask) ==
    [n \in 1..Len(mask) |->
        mask[n] /\ ~IsIn(px.pixel_cloud.classification[n], self.land_edge_classes)]

(* aggregate_wse: heights are aggregated for interior water and water edges *)
WseMask(self, px, mask) ==
    [n \in 1..Len(mask) |->
        mask[n] /\ IsIn(px.pixel_cloud.classification[n],
                        self.interior_water_classes \cup self.water_edge_classes)]

(* ag.height_with_uncerts(...)[out] *)
height_with_uncerts(height, good, flat_ifgram, method, out) ==
    [k |-> "height_with_uncerts", out |-> out, height |-> height, good |-> good,
     flat_ifgram |-> flat_ifgram, method |-> method]

(* aggregate_wse taking the heights of the improved geolocations when there *)
(* are some                                                                *)
aggregate_wse_improved(self, px, mask0, imp) ==
    LET target_xyz == IF imp # None THEN TargetXYZ(imp) ELSE TargetXYZ(px)
        flat_ifgram == FlatIfgram(px, target_xyz)
        mask == WseMask(self, px, mask0)
        pixc_height == IF imp # None THEN imp.pixel_cloud.height ELSE px.pixel_cloud.height
        Height(c, out) ==
            height_with_uncerts(Take(pixc_height, self.proj_mapping[c]),
                                Take(mask, self.proj_mapping[c]),
                                Take(flat_ifgram, self.proj_mapping[c]),
                                self.height_agg_method, out)
    IN  [self EXCEPT
            !.chan["wse"] = [c \in Cells(self.grid) |->
                IF Populated(self, c) THEN Height(c, 0) ELSE masked_all(self.grid)[c]],
            !.chan["wse_uncert"] = [c \in Cells(self.grid) |->
                IF Populated(self, c) THEN Height(c, 2) ELSE masked_all(self.grid)[c]],
            !.chan["n_wse_pix"] = [c \in Cells(self.grid) |->
                IF Populated(self, c) THEN CountGood(Take(mask, self.proj_mapping[c]))
                ELSE masked_all(self.grid)[c]]]

(* aggregate_wse counting the good points of the whole pixel cloud in every *)
(* populated cell                                                          *)
aggregate_wse_counting_all(self, px, mask0, imp) ==
    LET target_xyz == IF imp # None THEN TargetXYZ(imp) ELSE TargetXYZ(px)
        flat_ifgram == FlatIfgram(px, target_xyz)
        mask == WseMask(self, px, mask0)
        Height(c, out) ==
            height_with_uncerts(Take(px.pixel_cloud.height, self.proj_mapping[c]),
                                Take(mask, self.proj_mapping[c]),
                                Take(flat_ifgram, self.proj_mapping[c]),
                                self.height_agg_method, out)
    IN  [self EXCEPT
            !.chan["wse"] = [c \in Cells(self.grid) |->
                IF Populated(self, c) THEN Height(c, 0) ELSE masked_all(self.grid)[c]],
            !.chan["wse_uncert"] = [c \in Cells(self.grid) |->
                IF Populated(self, c) THEN Height(c, 2) ELSE masked_all(self.grid)[c]],
            !.chan["n_wse_pix"] = [c \in Cells(self.grid) |->
                IF Populated(self, c) THEN CountGood(mask)
                ELSE masked_all(self.grid)[c]]]

aggregate_wse(self, px, mask0, imp) ==
    LET target_xyz == IF imp # None THEN TargetXYZ(imp) ELSE TargetXYZ(px)
        flat_ifgram == FlatIfgram(px, target_xyz)
        mask == WseMask(self, px, mask0)
        Height(c, out) ==
            height_with_uncerts(Take(px.pixel_cloud.height, self.proj_mapping[c]),
                                Take(mask, self.proj_mapping[c]),
                                Take(flat_ifgram, self.proj_mapping[c]),
                                self.height_agg_method, out)
    IN  [self EXCEPT
            !.chan["wse"] = [c \in Cells(self.grid) |->
                IF Populated(self, c) THEN Height(c, 0) ELSE masked_all(self.grid)[c]],
            !.chan["wse_uncert"] = [c \in Cells(self.grid) |->
                IF Populated(self, c) THEN Height(c, 2) ELSE masked_all(self.grid)[c]],
            !.chan["n_wse_pix"] = [c \in Cells(self.grid) |->
                IF Populated(self, c) THEN CountGood(Take(mask, self.proj_mapping[c]))
                ELSE masked_all(self.grid)[c]]]

(* aggregate_water_area: the internal class of a raw classification *)
TmpKlass(self, klass) ==
    IF IsIn(klass, self.land_edge_classes) THEN LAND_EDGE_KLASS
    ELSE IF IsIn(klass, self.water_edge_classes) THEN WATER_EDGE_KLASS
    ELSE IF IsIn(klass, self.interior_water_classes) THEN INTERIOR_WATER_KLASS
    ELSE 0

(* ag.area_with_uncert(...)[out] *)
area_with_uncert(pixel_area, water_frac, klass, good, method, out) ==
    [k |-> "area_with_uncert", out |-> out, pixel_area |-> pixel_area,
     water_frac |-> water_frac, klass |-> klass, good |-> good, method |-> method]

(* the nominal area of the cells of row i *)
CellArea(self, i) ==
    IF self.projection_type = "utm"
    THEN [k |-> "area", of |-> <<self.resolution * self.resolution>>]
    ELSE [k |-> "wgs84_px_area", of |-> <<self.grid.y_min + self.resolution * i, self.resolution>>]

Quotient(num, den) == [k |-> "quotient", num |-> num, den |-> den]

aggregate_water_area(self, px, mask) ==
    LET tmp_klass == [n \in 1..NumPoints(px) |-> TmpKlass(self, px.pixel_cloud.classification[n])]
        Area(c, out) ==
            area_with_uncert(Take(px.pixel_cloud.pixel_area, self.proj_mapping[c]),
                             Take(px.pixel_cloud.water_frac, self.proj_mapping[c]),
                             Take(tmp_klass, self.proj_mapping[c]),
                             Take(mask, self.proj_mapping[c]),
                             self.area_agg_method, out)
    IN  [self EXCEPT
            !.chan["water_area"] = [c \in Cells(self.grid) |->
                IF Populated(self, c) THEN Area(c, 0) ELSE masked_all(self.grid)[c]],
            !.chan["water_area_uncert"] = [c \in Cells(self.grid) |->
                IF Populated(self, c) THEN Area(c, 1) ELSE masked_all(self.grid)[c]],
            !.chan["water_frac"] = [c \in Cells(self.grid) |->
                IF Populated(self, c) THEN Quotient(Area(c, 0), CellArea(self, c[1]))
                ELSE masked_all(self.grid)[c]],
            !.chan["water_frac_uncert"] = [c \in Cells(self.grid) |->
                IF Populated(self, c) THEN Quotient(Area(c, 1), CellArea(self, c[1]))
                ELSE masked_all(self.grid)[c]],
            !.chan["n_area_pix"] = [c \in Cells(self.grid) |->
                IF Populated(self, c) THEN CountGood(Take(mask, self.proj_mapping[c]))
                ELSE masked_all(self.grid)[c]]]

(* a per-cell mean of one pixel-cloud array over the good points *)
CellMean(self, px, mask, field, c) ==
    simple(Where(Take(Field(px, field), self.proj_mapping[c]),
                 Take(mask, self.proj_mapping[c])), "mean")

MeanArray(self, px, mask, field) ==
    [c \in Cells(self.grid) |->
        IF Populated(self, c) THEN CellMean(self, px, mask, field, c)
        ELSE masked_all(self.grid)[c]]

aggregate_cross_track(self, px, mask) ==
    [self EXCEPT !.chan["cross_track"] = MeanArray(self, px, mask, "cross_track")]

(* ag.height_uncert_std *)
height_uncert_std(values, good) == [k |-> "height_uncert_std", of |-> values, good |-> good]

aggregate_sig0(self, px, mask) ==
    [self EXCEPT
        !.chan["sig0"] = MeanArray(self, px, mask, "sig0"),
        !.chan["sig0_uncert"] = [c \in Cells(self.grid) |->
            IF Populated(self, c)
            THEN height_uncert_std(Take(Field(px, "sig0"), self.proj_mapping[c]),
                                   Take(mask, self.proj_mapping[c]))
            ELSE masked_all(self.grid)[c]]]

aggregate_inc(self, px, mask) ==
    [self EXCEPT !.chan["inc"] = MeanArray(self, px, mask, "inc")]

(* np.sum(a * b) over two arrays of numbers *)
RECURSIVE SumProductTo(_, _, _)
SumProductTo(a, b, m) ==
    IF m = 0 THEN 0 ELSE a[m].v * b[m].v + SumProductTo(a, b, m - 1)

SumProduct(a, b) == SumProductTo(a, b, Len(a))

(* no entry of the array is NaN: a sum over a NaN is NaN, which is not 0   *)
AllNum(a) == \A m \in 1..Len(a) : IsNum(a[m])

(* calc_dark_frac without the test for no water *)
calc_dark_frac_unguarded(self, pixel_area, klass, water_frac) ==
    LET klass_dark == [m \in 1..Len(klass) |-> IsIn(klass[m], self.dark_water_classes)]
    IN  IF ~(AllNum(pixel_area) /\ AllNum(water_frac)) THEN NaN
        ELSE [k |-> "ratio",
              dark_area |-> SumProduct(Where(pixel_area, klass_dark), Where(water_frac, klass_dark)),
              total_area |-> SumProduct(pixel_area, water_frac)]

calc_dark_frac(self, pixel_area, klass, water_frac) ==
    LET klass_dark == [m \in 1..Len(klass) |-> IsIn(klass[m], self.dark_water_classes)]
        dark_area == SumProduct(Where(pixel_area, klass_dark), Where(water_frac, klass_dark))
        total_area == SumProduct(pixel_area, water_frac)
    IN  IF ~(AllNum(pixel_area) /\ AllNum(water_frac)) THEN NaN
        ELSE IF total_area = 0 THEN Num(0)
        ELSE [k |-> "ratio", dark_area |-> dark_area, total_area |-> total_area]

aggregate_dark_frac(self, px, mask) ==
    [self EXCEPT !.chan["dark_frac"] = [c \in Cells(self.grid) |->
        IF Populated(self, c)
        THEN LET good == Take(mask, self.proj_mapping[c])
             IN  calc_dark_frac(self,
                    Where(Take(px.pixel_cloud.pixel_area, self.proj_mapping[c]), good),
                    Where(Take(px.pixel_cloud.classification, self.proj_mapping[c]), good),
                    Where(Take(px.pixel_cloud.water_frac, self.proj_mapping[c]), good))
        ELSE masked_all(self.grid)[c]]]

aggregate_classification(self, px, mask) ==
    [self EXCEPT !.chan["classification"] = [c \in Cells(self.grid) |->
        IF Populated(self, c)
        THEN simple(Where(Take(px.pixel_cloud.classification, self.proj_mapping[c]),
                          Take(mask, self.proj_mapping[c])), "mode")
        ELSE masked_all(self.grid)[c]]]

aggregate_illumination_time(self, px, mask) ==
    [self EXCEPT
        !.chan["illumination_time"] = MeanArray(self, px, mask, "illumination_time"),
        !.chan["illumination_time_tai"] = MeanArray(self, px, mask, "illumination_time_tai")]

aggregate_corrections(self, px, mask) ==
    [self EXCEPT
        !.chan["geoid"] = MeanArray(self, px, mask, "geoid"),
        !.chan["solid_earth_tide"] = MeanArray(self, px, mask, "solid_earth_tide"),
        !.chan["load_tide_sol1"] = MeanArray(self, px, mask, "load_tide_sol1"),
        !.chan["load_tide_sol2"] = MeanArray(self, px, mask, "load_tide_sol2"),
        !.chan["pole_tide"] = MeanArray(self, px, mask, "pole_tide"),
        !.chan["model_dry_tropo_cor"] = MeanArray(self, px, mask, "model_dry_tropo_cor"),
        !.chan["model_wet_tropo_cor"] = MeanArray(self, px, mask, "model_wet_tropo_cor"),
        !.chan["iono_cor_gim_ka"] = MeanArray(self, px, mask, "iono_cor_gim_ka")]

(* apply_wse_corrections by plain arithmetic on the arrays' stored values, *)
(* the masks ignored                                                       *)
apply_wse_corrections_unmasked(self) ==
    [self EXCEPT !.chan["wse"] = [c \in Cells(self.grid) |->
        [k |-> "corrected", raw |-> self.chan["wse"][c],
         minus |-> <<self.chan["geoid"][c], self.chan["solid_earth_tide"][c],
                     self.chan["load_tide_sol1"][c], self.chan["pole_tide"][c]>>]]]

(* the correction applier: wse -= geoid + solid_earth_tide + load_tide_sol1 *)
(* + pole_tide on masked arrays: a cell masked in any operand stays masked  *)
apply_wse_corrections(self) ==
    [self EXCEPT !.chan["wse"] = [c \in Cells(self.grid) |->
        LET minus == <<self.chan["geoid"][c], self.chan["solid_earth_tide"][c],
                       self.chan["load_tide_sol1"][c], self.chan["pole_tide"][c]>>
        IN  IF self.chan["wse"][c] = Masked \/ \E m \in 1..4 : minus[m] = Masked
            THEN Masked
            ELSE [k |-> "corrected", raw |-> self.chan["wse"][c], minus |-> minus]]]

(* aggregate_lat_lon: the geodetic position of the populated cells' centres *)
CellCentre(self, c, axis) == [k |-> "cell_centre", axis |-> axis, i |-> c[1], j |-> c[2]]

aggregate_lat_lon(self, mask) ==
    LET AnyGood(c) == \E m \in 1..Len(self.proj_mapping[c]) : mask[self.proj_mapping[c][m]]
    IN  [self EXCEPT
            !.chan["latitude"] = [c \in Cells(self.grid) |->
                IF Populated(self, c) /\ AnyGood(c) THEN CellCentre(self, c, "latitude")
                ELSE masked_all(self.grid)[c]],
            !.chan["longitude"] = [c \in Cells(self.grid) |->
                IF Populated(self, c) /\ AnyGood(c) THEN CellCentre(self, c, "longitude")
                ELSE masked_all(self.grid)[c]]]

----------------------------------------------------------------------------
(* the product assembler *)

(* the per-cell variables of the product of a projection and debug flag *)
ProductVariables(self) ==
    (Channels \ {"longitude", "latitude", "classification"})
        \cup (IF self.projection_type = "utm" THEN {"longitude", "latitude"} ELSE {})
        \cup (IF self.debug_flag THEN {"classification"} ELSE {})

build_product(self, populate_values) ==
    [k |-> "product",
     populated |-> populate_values,
     projection_type |-> self.projection_type,
     debug_flag |-> self.debug_flag,
     resolution |-> self.resolution,
     scene |-> self.scene,
     grid |-> self.grid,
     variables |-> ProductVariables(self),
     chan |-> [ch \in (IF populate_values THEN ProductVariables(self) ELSE {}) |->
                  self.chan[ch]]]

(* the product's value of a variable in a cell: a variable never assigned  *)
(* reads as its fill value                                                 *)
ProductValue(p, ch, c) == IF ch \in DOMAIN p.chan THEN p.chan[ch][c] ELSE Masked

(* raster_products' is_empty: no cell of any variable holds a value *)
is_empty(p) == \A ch \in p.variables : \A c \in Cells(p.grid) : ProductValue(p, ch, c) = Masked

----------------------------------------------------------------------------
(* RasterProcessor.rasterize *)

(* ProjMapping appending to the lists the processor holds from an earlier  *)
(* call                                                                    *)
ProjMappingAppended(self, px, imp, pixc_mask) ==
    LET new == get_raster_mapping(self.grid, self.resolution,
                                  IF imp # None THEN imp ELSE px, pixc_mask)
    IN  IF self.proj_mapping = None THEN new
        ELSE [c \in Cells(self.grid) |-> self.proj_mapping[c] \o new[c]]

(* the bin map of the pass: of the improved geolocations when there are any *)
ProjMapping(self, px, imp, pixc_mask) ==
    IF imp # None
    THEN get_raster_mapping(self.grid, self.resolution, imp, pixc_mask)
    ELSE get_raster_mapping(self.grid, self.resolution, px, pixc_mask)

(* the mask of the pass *)
PassMask(self, px, imp) ==
    IF imp # None THEN ImprovedMask(ClassMask(self, px), imp) ELSE ClassMask(self, px)

(* the aggregation steps of rasterize, in order *)
Aggregate(self, px, imp, pixc_mask) ==
    LET s1 == aggregate_wse(self, px, pixc_mask, imp)
        s2 == aggregate_water_area(s1, px, pixc_mask)
        s3 == aggregate_cross_track(s2, px, pixc_mask)
        s4 == aggregate_sig0(s3, px, pixc_mask)
        s5 == aggregate_inc(s4, px, pixc_mask)
        s6 == aggregate_dark_frac(s5, px, pixc_mask)
        s7 == aggregate_illumination_time(s6, px, pixc_mask)
        s8 == aggregate_corrections(s7, px, pixc_mask)
        s9 == apply_wse_corrections(s8)
        s10 == IF self.projection_type = "utm" THEN aggregate_lat_lon(s9, pixc_mask) ELSE s9
    IN  IF self.debug_flag THEN aggregate_classification(s10, px, pixc_mask) ELSE s10

(* EmptyPixc taking no pixel cloud for empty *)
EmptyPixcNever(px) == FALSE

(* rasterize: the pixel cloud is empty *)
EmptyPixc(px) == NumPoints(px) = 0

(* the processor after the call and what the call returns: a product, or   *)
(* the exception create_projection_from_bbox raised                        *)
rasterize(self, px, imp) ==
    LET s1 == [self EXCEPT !.scene = SceneOf(px)]
        grid == create_projection_from_bbox(s1, Corners(s1.scene))
    IN  IF grid.k = "raised" THEN [self |-> s1, ret |-> grid]
        ELSE
        LET s2 == [s1 EXCEPT !.grid = grid]
            empty_product == build_product(s2, FALSE)
        IN  IF EmptyPixc(px) THEN [self |-> s2, ret |-> empty_product]
            ELSE
            LET pixc_mask == Eager(PassMask(s2, px, imp))
                s3 == [s2 EXCEPT !.proj_mapping = Eager(ProjMapping(s2, px, imp, pixc_mask))]
                s4 == Aggregate(s3, px, imp, pixc_mask)
            IN  [self |-> s4, ret |-> build_product(s4, TRUE)]

----------------------------------------------------------------------------
(* inputs *)

MaxPoints == 2

Point(lat, lon, height, klass, area, wf) ==
    [latitude |-> lat, longitude |-> lon, height |-> height,
     classification |-> klass, pixel_area |-> area, water_frac |-> wf]

(* a pixel cloud of the given points over the scene 0..1 N, 0..1 E *)
MkPixc(points) ==
    [pixel_cloud |->
        [latitude |-> [n \in 1..Len(points) |-> points[n].latitude],
         longitude |-> [n \in 1..Len(points) |-> points[n].longitude],
         height |-> [n \in 1..Len(points) |-> points[n].height],
         classification |-> [n \in 1..Len(points) |-> points[n].classification],
         pixel_area |-> [n \in 1..Len(points) |-> points[n].pixel_area],
         water_frac |-> [n \in 1..Len(points) |-> points[n].water_frac]],
     meta |-> "scene",
     geospatial_lat_min |-> 0, geospatial_lat_max |-> 1,
     geospatial_lon_min |-> 0, geospatial_lon_max |-> 1]

Collections(kinds) == UNION {[1..n -> kinds] : n \in 0..MaxPoints}

(* open water in two cells, outside the grid, and without a latitude;      *)
(* and in the first cell: dark water with and without water, open water of *)
(* negative water fraction, a land edge, and land (no configured class)    *)
RasterPointKinds ==
    {Point(Num(0), Num(0), Num(5), Num(PIXC_CLASSES.open_water), Num(1), Num(1)),
     Point(Num(1), Num(1), Num(5), Num(PIXC_CLASSES.open_water), Num(1), Num(1)),
     Point(Num(3), Num(0), Num(5), Num(PIXC_CLASSES.open_water), Num(1), Num(1)),
     Point(NaN, Num(0), Num(5), Num(PIXC_CLASSES.open_water), Num(1), Num(1)),
     Point(Num(0), Num(0), Num(5), Num(PIXC_CLASSES.dark_water), Num(1), Num(1)),
     Point(Num(0), Num(0), Num(5), Num(PIXC_CLASSES.dark_water), Num(1), Num(0)),
     Point(Num(0), Num(0), Num(5), Num(PIXC_CLASSES.open_water), Num(1), Num(-1)),
     Point(Num(0), Num(0), Num(5), Num(PIXC_CLASSES.land_near_water), Num(1), Num(1)),
     Point(Num(0), Num(0), Num(5), Num(PIXC_CLASSES.land), Num(1), Num(1))}

(* what a refinement makes of one point's geolocation *)
RefineKinds == {"same", "moved", "nan"}

RefinedLat(lat, kind) ==
    IF kind = "nan" THEN NaN
    ELSE IF kind = "moved" /\ IsNum(lat) THEN Num(lat.v + 1)
    ELSE lat

RefinedHeight(height) == IF IsNum(height) THEN Num(height.v + 1) ELSE height

(* WithGeolocation replacing the pixel areas and the scene's corner too *)
WithGeolocationAndMore(px, new_lat, new_lon, new_height) ==
    [px EXCEPT !.pixel_cloud.latitude = new_lat,
               !.pixel_cloud.longitude = new_lon,
               !.pixel_cloud.height = new_height,
               !.pixel_cloud.pixel_area = new_height,
               !.geospatial_lat_max = @ + 1]

(* the copy of a pixel cloud with its latitude, longitude and height replaced *)
WithGeolocation(px, new_lat, new_lon, new_height) ==
    [px EXCEPT !.pixel_cloud.latitude = new_lat,
               !.pixel_cloud.longitude = new_lon,
               !.pixel_cloud.height = new_height]

Refined(px, kinds) ==
    WithGeolocation(px,
        [n \in 1..NumPoints(px) |-> RefinedLat(px.pixel_cloud.latitude[n], kinds[n])],
        px.pixel_cloud.longitude,
        [n \in 1..NumPoints(px) |-> RefinedHeight(px.pixel_cloud.height[n])])

(* the improved geolocations a caller may supply: none, every point moved, *)
(* the first point without a latitude                                      *)
ImprovedVariants(px) ==
    {None,
     Refined(px, [n \in 1..NumPoints(px) |-> "moved"]),
     Refined(px, [n \in 1..NumPoints(px) |-> IF n = 1 THEN "nan" ELSE "same"])}

(* parse_config_defaults: the defaults of the algorithmic configuration *)
config_defaults ==
    [buffer_size |-> 0,
     height_agg_method |-> "weight",
     area_agg_method |-> "composite",
     interior_water_classes |-> {PIXC_CLASSES.open_water, PIXC_CLASSES.dark_water},
     water_edge_classes |-> {PIXC_CLASSES.water_near_land, PIXC_CLASSES.dark_water_edge},
     land_edge_classes |-> {PIXC_CLASSES.land_near_water, PIXC_CLASSES.land_near_dark_water},
     dark_water_classes |-> {PIXC_CLASSES.dark_water, PIXC_CLASSES.dark_water_edge,
                             PIXC_CLASSES.land_near_dark_water},
     do_improved_geolocation |-> TRUE,
     improved_geolocation_method |-> "taylor",
     improved_geolocation_smooth_factor |-> 5,
     debug_flag |-> FALSE]

(* a processor of the default classes and methods *)
DefaultProcessor(projection_type, resolution, buffer_size, debug_flag) ==
    RasterProcessorInit(projection_type, resolution, 0, 0, buffer_size,
        config_defaults.height_agg_method, config_defaults.area_agg_method,
        config_defaults.interior_water_classes, config_defaults.water_edge_classes,
        config_defaults.land_edge_classes, config_defaults.dark_water_classes,
        debug_flag)

----------------------------------------------------------------------------
(* SpecRaster: one processor, rasterize called twice with the same inputs *)

InitRaster ==
    /\ pc = "new"
    /\ runtime_config = None
    /\ algorithmic_config = None
    /\ raster_proc \in {DefaultProcessor(p, ArcsecPerDegree, b, TRUE) :
                          p \in {"utm", "geo"}, b \in {0, 1}}
    /\ pixc \in {MkPixc(points) : points \in Collections(RasterPointKinds)}
    /\ improved_geoloc_pixc \in ImprovedVariants(pixc)
    /\ coarse = None
    /\ product = None
    /\ log = <<>>

RasterizeOnce ==
    /\ pc = "new"
    /\ \E r \in {rasterize(raster_proc, pixc, improved_geoloc_pixc)} :
           /\ raster_proc' = r.self
           /\ product' = r.ret
           /\ log' = Append(log, [grid |-> r.self.grid, proj_mapping |-> r.self.proj_mapping, ret |-> r.ret])
    /\ pc' = "once"
    /\ UNCHANGED <<runtime_config, algorithmic_config, pixc, improved_geoloc_pixc, coarse>>

RasterizeAgain ==
    /\ pc = "once"
    /\ \E r \in {rasterize(raster_proc, pixc, improved_geoloc_pixc)} :
           /\ raster_proc' = r.self
           /\ product' = r.ret
           /\ log' = Append(log, [grid |-> r.self.grid, proj_mapping |-> r.self.proj_mapping, ret |-> r.ret])
    /\ pc' = "twice"
    /\ UNCHANGED <<runtime_config, algorithmic_config, pixc, improved_geoloc_pixc, coarse>>

NextRaster == RasterizeOnce \/ RasterizeAgain

SpecRaster == InitRaster /\ [][NextRaster]_vars

----------------------------------------------------------------------------
(* Spec: L2PixcToRaster.process *)

(* open water in two cells and without a latitude, a land edge, and land *)
ProcessPointKinds ==
    {Point(Num(0), Num(0), Num(5), Num(PIXC_CLASSES.open_water), Num(1), Num(1)),
     Point(Num(1), Num(1), Num(5), Num(PIXC_CLASSES.open_water), Num(1), Num(1)),
     Point(NaN, Num(0), Num(5), Num(PIXC_CLASSES.open_water), Num(1), Num(1)),
     Point(Num(0), Num(0), Num(5), Num(PIXC_CLASSES.land_near_water), Num(1), Num(1)),
     Point(Num(0), Num(0), Num(5), Num(PIXC_CLASSES.land), Num(1), Num(1))}

(* what the geolocation solver may make of a point *)
SolverKinds == {"moved", "nan"}

Restrict(f, keys) == [key \in keys |-> f[key]]

(* the algorithmic configurations a caller may give: every option set, or  *)
(* none                                                                    *)
AlgorithmicConfigs ==
    {[config_defaults EXCEPT !.buffer_size = b,
                             !.do_improved_geolocation = g,
                             !.debug_flag = d,
                             !.improved_geolocation_smooth_factor = 2] :
        b \in {0, 1}, g \in BOOLEAN, d \in BOOLEAN}
    \cup {Restrict(config_defaults, {})}

RuntimeConfigs ==
    {[output_sampling_grid_type |-> p, raster_resolution |-> ArcsecPerDegree,
      utm_zone_adjust |-> 0, latitude_band_adjust |-> 0] : p \in {"utm", "geo", "other"}}

Init ==
    /\ pc = "start"
    /\ runtime_config \in RuntimeConfigs
    /\ algorithmic_config \in AlgorithmicConfigs
    /\ pixc \in {MkPixc(points) : points \in Collections(ProcessPointKinds)}
    /\ improved_geoloc_pixc \in {None, Refined(pixc, [n \in 1..NumPoints(pixc) |-> "moved"])}
    /\ raster_proc = None
    /\ coarse = None
    /\ product = None
    /\ log = <<>>

(* ParsedConfig assigning the default to every option, set or not *)
ParsedConfigOverwritten(config) ==
    [key \in DOMAIN config \cup DOMAIN config_defaults |->
        IF key \in DOMAIN config_defaults THEN config_defaults[key] ELSE config[key]]

(* parse_config_defaults *)
ParsedConfig(config) ==
    [key \in DOMAIN config \cup DOMAIN config_defaults |->
        IF key \in DOMAIN config THEN config[key] ELSE config_defaults[key]]

ParseConfigDefaults ==
    /\ pc = "start"
    /\ algorithmic_config' = ParsedConfig(algorithmic_config)
    /\ pc' = "parsed"
    /\ UNCHANGED <<runtime_config, pixc, improved_geoloc_pixc, raster_proc, coarse, product, log>>

(* the keys the passes read from the runtime configuration; subscripting   *)
(* a configuration that lacks one raises KeyError                          *)
RuntimeKeys ==
    {"output_sampling_grid_type", "raster_resolution", "utm_zone_adjust",
     "latitude_band_adjust"}

HasRuntimeKeys(rt) == RuntimeKeys \subseteq DOMAIN rt

(* the processor of a pass at the given resolution *)
ProcessorOf(rt, ac, resolution) ==
    RasterProcessorInit(rt.output_sampling_grid_type, resolution,
        rt.utm_zone_adjust, rt.latitude_band_adjust, ac.buffer_size,
        ac.height_agg_method, ac.area_agg_method,
        ac.interior_water_classes, ac.water_edge_classes,
        ac.land_edge_classes, ac.dark_water_classes, ac.debug_flag)

(* the resolution of the coarse pass *)
CoarseResolution(rt, ac) == rt.raster_resolution * ac.improved_geolocation_smooth_factor

(* CoarseRasterize whatever do_improved_geolocation says *)
CoarseRasterizeAlways ==
    /\ pc = "parsed"
    /\ \E r \in {rasterize(ProcessorOf(runtime_config, algorithmic_config,
                                       CoarseResolution(runtime_config, algorithmic_config)),
                           pixc, improved_geoloc_pixc)} :
           /\ coarse' = [mapped |-> improved_geoloc_pixc, self |-> r.self, ret |-> r.ret]
           /\ pc' = IF r.ret.k = "raised" THEN "raised" ELSE "coarse"
    /\ log' = Append(log, "coarse")
    /\ UNCHANGED <<runtime_config, algorithmic_config, pixc, improved_geoloc_pixc, raster_proc, product>>

(* do_improved_geolocation, to the coarse raster *)
CoarseRasterize ==
    /\ pc = "parsed"
    /\ algorithmic_config.do_improved_geolocation
    /\ IF ~HasRuntimeKeys(runtime_config)
       THEN /\ coarse' = coarse
            /\ pc' = "raised"
            /\ log' = Append(log, "KeyError")
       ELSE /\ \E r \in {rasterize(ProcessorOf(runtime_config, algorithmic_config,
                                  CoarseResolution(runtime_config, algorithmic_config)),
                                  pixc, improved_geoloc_pixc)} :
                   /\ coarse' = [mapped |-> improved_geoloc_pixc, self |-> r.self, ret |-> r.ret]
                   /\ pc' = IF r.ret.k = "raised" THEN "raised" ELSE "coarse"
            /\ log' = Append(log, "coarse")
    /\ UNCHANGED <<runtime_config, algorithmic_config, pixc, improved_geoloc_pixc, raster_proc, product>>

(* do_improved_geolocation: an empty coarse raster ends the refinement *)
SkipGeolocRaster ==
    /\ pc = "coarse"
    /\ is_empty(coarse.ret)
    /\ pc' = "ready"
    /\ log' = Append(log, "skip")
    /\ UNCHANGED <<runtime_config, algorithmic_config, pixc, improved_geoloc_pixc, raster_proc, coarse, product>>

(* GeolocRaster called whatever the coarse raster holds *)
GeolocRasterAlways ==
    /\ pc = "coarse"
    /\ \E kinds \in [1..NumPoints(pixc) -> SolverKinds] :
           improved_geoloc_pixc' = Refined(pixc, kinds)
    /\ pc' = "ready"
    /\ log' = Append(log, "geoloc_raster")
    /\ UNCHANGED <<runtime_config, algorithmic_config, pixc, raster_proc, coarse, product>>

(* do_improved_geolocation: geoloc_raster returns a latitude, longitude    *)
(* and height for every point, which replace those of a copy of the pixc   *)
GeolocRaster ==
    /\ pc = "coarse"
    /\ ~is_empty(coarse.ret)
    /\ \E kinds \in [1..NumPoints(pixc) -> SolverKinds] :
           improved_geoloc_pixc' = Refined(pixc, kinds)
    /\ pc' = "ready"
    /\ log' = Append(log, "geoloc_raster")
    /\ UNCHANGED <<runtime_config, algorithmic_config, pixc, raster_proc, coarse, product>>

(* FinalRasterize with the exception caught: process returns None *)
FinalRasterizeCaught ==
    /\ \/ pc = "ready"
       \/ pc = "parsed" /\ ~algorithmic_config.do_improved_geolocation
    /\ \E r \in {rasterize(ProcessorOf(runtime_config, algorithmic_config,
                                       runtime_config.raster_resolution),
                           pixc, improved_geoloc_pixc)} :
           /\ raster_proc' = r.self
           /\ product' = IF r.ret.k = "raised" THEN None ELSE r.ret
    /\ pc' = "done"
    /\ log' = Append(log, "final")
    /\ UNCHANGED <<runtime_config, algorithmic_config, pixc, improved_geoloc_pixc, coarse>>

(* FinalRasterize returning the raster of the coarse pass when there is one *)
FinalRasterizeCoarse ==
    /\ \/ pc = "ready"
       \/ pc = "parsed" /\ ~algorithmic_config.do_improved_geolocation
    /\ \E r \in {rasterize(ProcessorOf(runtime_config, algorithmic_config,
                                       runtime_config.raster_resolution),
                           pixc, improved_geoloc_pixc)} :
           /\ raster_proc' = r.self
           /\ product' = IF r.ret.k = "raised" THEN None
                         ELSE IF coarse # None THEN coarse.ret ELSE r.ret
           /\ pc' = IF r.ret.k = "raised" THEN "raised" ELSE "done"
    /\ log' = Append(log, "final")
    /\ UNCHANGED <<runtime_config, algorithmic_config, pixc, improved_geoloc_pixc, coarse>>

(* do_raster_processing, and the return of process *)
FinalRasterize ==
    /\ \/ pc = "ready"
       \/ pc = "parsed" /\ ~algorithmic_config.do_improved_geolocation
    /\ IF ~HasRuntimeKeys(runtime_config)
       THEN /\ raster_proc' = raster_proc
            /\ product' = product
            /\ pc' = "raised"
            /\ log' = Append(log, "KeyError")
       ELSE /\ \E r \in {rasterize(ProcessorOf(runtime_config, algorithmic_config,
                                               runtime_config.raster_resolution),
                                   pixc, improved_geoloc_pixc)} :
                   /\ raster_proc' = r.self
                   /\ product' = IF r.ret.k = "raised" THEN None ELSE r.ret
                   /\ pc' = IF r.ret.k = "raised" THEN "raised" ELSE "done"
            /\ log' = Append(log, "final")
    /\ UNCHANGED <<runtime_config, algorithmic_config, pixc, improved_geoloc_pixc, coarse>>

Next ==
    \/ ParseConfigDefaults
    \/ CoarseRasterize
    \/ SkipGeolocRaster
    \/ GeolocRaster
    \/ FinalRasterize

Spec == Init /\ [][Next]_vars

----------------------------------------------------------------------------
(* SpecGrid: the grid projector over scenes, resolutions, buffers and zone *)
(* and band adjustments (rasterize of a pixel cloud without points)        *)

(* scene bounding boxes <<lat_min, lat_max>>, within the UTM latitudes *)
SceneLats == {<<0, 1>>, <<-1, 1>>, <<-72, -70>>, <<50, 53>>, <<80, 83>>, <<2, 2>>}

(* scene bounding boxes <<lon_min, lon_max>>, some in 0..360, one across   *)
(* the antimeridian                                                        *)
SceneLons ==
    {<<0, 1>>, <<-3, 2>>, <<176, 178>>, <<181, 183>>, <<179, 181>>, <<358, 359>>,
     <<-180, -178>>, <<7, 7>>, <<10, 13>>}

MkScene(lats, lons) ==
    [MkPixc(<<>>) EXCEPT !.geospatial_lat_min = lats[1], !.geospatial_lat_max = lats[2],
                         !.geospatial_lon_min = lons[1], !.geospatial_lon_max = lons[2]]

GridProcessors ==
    {RasterProcessorInit(p, r, za, ba, b,
        config_defaults.height_agg_method, config_defaults.area_agg_method,
        config_defaults.interior_water_classes, config_defaults.water_edge_classes,
        config_defaults.land_edge_classes, config_defaults.dark_water_classes, FALSE) :
        p \in {"utm", "geo"},
        r \in {ArcsecPerDegree, 2 * ArcsecPerDegree},
        za \in {-61, -1, 0, 1},
        ba \in {-99, -1, 0, 99},
        b \in {0, 1, 2 * ArcsecPerDegree, -ArcsecPerDegree}}

InitGrid ==
    /\ pc = "new"
    /\ runtime_config = None
    /\ algorithmic_config = None
    /\ raster_proc \in GridProcessors
    /\ pixc \in {MkScene(lats, lons) : lats \in SceneLats, lons \in SceneLons}
    /\ improved_geoloc_pixc = None
    /\ coarse = None
    /\ product = None
    /\ log = <<>>

SpecGrid == InitGrid /\ [][NextRaster]_vars

----------------------------------------------------------------------------
(* SpecClasses: rasterize under the default class sets and under class     *)
(* sets whose dark-water classes are in no other set                       *)

ClassProcessors ==
    {DefaultProcessor(p, ArcsecPerDegree, 0, TRUE) : p \in {"utm", "geo"}}
    \cup {RasterProcessorInit(p, ArcsecPerDegree, 0, 0, 0,
              config_defaults.height_agg_method, config_defaults.area_agg_method,
              {PIXC_CLASSES.open_water}, {PIXC_CLASSES.water_near_land},
              {PIXC_CLASSES.land_near_water}, {PIXC_CLASSES.dark_water}, TRUE) :
          p \in {"utm", "geo"}}

(* in the first cell: open water, a water edge, dark water, a land edge    *)
(* and land; open water in another cell                                    *)
ClassPointKinds ==
    {Point(Num(0), Num(0), Num(5), Num(PIXC_CLASSES.open_water), Num(1), Num(1)),
     Point(Num(0), Num(0), Num(5), Num(PIXC_CLASSES.water_near_land), Num(1), Num(1)),
     Point(Num(0), Num(0), Num(5), Num(PIXC_CLASSES.dark_water), Num(1), Num(1)),
     Point(Num(0), Num(0), Num(5), Num(PIXC_CLASSES.land_near_water), Num(1), Num(1)),
     Point(Num(0), Num(0), Num(5), Num(PIXC_CLASSES.land), Num(1), Num(1)),
     Point(Num(1), Num(1), Num(5), Num(PIXC_CLASSES.open_water), Num(1), Num(1))}

InitClasses ==
    /\ pc = "new"
    /\ runtime_config = None
    /\ algorithmic_config = None
    /\ raster_proc \in ClassProcessors
    /\ pixc \in {MkPixc(points) : points \in Collections(ClassPointKinds)}
    /\ improved_geoloc_pixc \in ImprovedVariants(pixc)
    /\ coarse = None
    /\ product = None
    /\ log = <<>>

SpecClasses == InitClasses /\ [][NextRaster]_vars

----------------------------------------------------------------------------
(* SpecMask: rasterize of points with masked and NaN fields, in scenes at  *)
(* the equator and at the two polar bounds of get_pixc_mask                *)

(* the base latitude of a scene, <<lat_min, lat_max>>, and the bound in it *)
MaskScenes == {<<0, 1>>, <<LatUpper - 1, LatUpper>>, <<LatLower, LatLower + 1>>}

SceneBase(lats) == IF lats[2] = LatUpper THEN lats[1] ELSE IF lats[1] = LatLower THEN lats[2] ELSE lats[1]

SceneBound(lats) == IF lats[2] = LatUpper THEN lats[2] ELSE IF lats[1] = LatLower THEN lats[1] ELSE lats[2]

(* a point with every field set, and the points that differ from it in one *)
(* field: the latitude at the scene's other edge, a field masked or NaN,   *)
(* a class no processor defines                                            *)
MaskPointKinds(lats) ==
    LET base == Point(Num(SceneBase(lats)), Num(0), Num(5), Num(PIXC_CLASSES.open_water), Num(1), Num(1))
    IN  {base, [base EXCEPT !.classification = Num(PIXC_CLASSES.land)]}
        \cup {[base EXCEPT !.latitude = v] : v \in {Num(SceneBound(lats)), NaN, Masked}}
        \cup {[base EXCEPT !.longitude = v] : v \in {NaN, Masked}}
        \cup {[base EXCEPT !.height = v] : v \in {NaN, Masked}}
        \cup {[base EXCEPT !.pixel_area = v] : v \in {NaN, Masked}}
        \cup {[base EXCEPT !.classification = v] : v \in {NaN, Masked}}

MkPixcIn(lats, points) ==
    [MkPixc(points) EXCEPT !.geospatial_lat_min = lats[1], !.geospatial_lat_max = lats[2]]

InitMask ==
    /\ pc = "new"
    /\ runtime_config = None
    /\ algorithmic_config = None
    /\ raster_proc \in {DefaultProcessor(p, ArcsecPerDegree, 0, TRUE) : p \in {"utm", "geo"}}
    /\ pixc \in UNION {{MkPixcIn(lats, points) : points \in Collections(MaskPointKinds(lats))} :
                          lats \in MaskScenes}
    /\ improved_geoloc_pixc = None
    /\ coarse = None
    /\ product = None
    /\ log = <<>>

SpecMask == InitMask /\ [][NextRaster]_vars

----------------------------------------------------------------------------
(* SpecRefined: rasterize of the points of SpecMask with improved          *)
(* geolocations that are valid where the raw ones are not, and invalid     *)
(* where the raw ones are valid                                            *)

(* improved geolocations of every point but the first n, which get NaN:    *)
(* the scene's base latitude and a height                                  *)
RefinedValid(px, n) ==
    WithGeolocation(px,
        [m \in 1..NumPoints(px) |->
            IF m <= n THEN NaN
            ELSE Num(SceneBase(<<px.geospatial_lat_min, px.geospatial_lat_max>>))],
        px.pixel_cloud.longitude,
        [m \in 1..NumPoints(px) |-> Num(6)])

InitRefined ==
    /\ pc = "new"
    /\ runtime_config = None
    /\ algorithmic_config = None
    /\ raster_proc \in {DefaultProcessor(p, ArcsecPerDegree, 0, TRUE) : p \in {"utm", "geo"}}
    /\ pixc \in UNION {{MkPixcIn(lats, points) : points \in Collections(MaskPointKinds(lats))} :
                          lats \in MaskScenes}
    /\ improved_geoloc_pixc \in {RefinedValid(pixc, n) : n \in {0, 1}}
    /\ coarse = None
    /\ product = None
    /\ log = <<>>

SpecRefined == InitRefined /\ [][NextRaster]_vars

----------------------------------------------------------------------------
(* properties of rasterize (SpecRaster) *)

(* the collection whose geolocation a pass bins *)
Located(px, imp) == IF imp # None THEN imp ELSE px

(* a point is valid (in the pixel cloud, and in the improved geolocations  *)
(* when the pass bins those) and of a class of the processor               *)
ValidRecognized(self, px, imp, n) ==
    /\ PointValid(px.pixel_cloud.latitude[n], px.pixel_cloud.longitude[n],
                  px.pixel_cloud.height[n], px.pixel_cloud.pixel_area[n],
                  px.pixel_cloud.classification[n])
    /\ imp # None =>
          PointValid(imp.pixel_cloud.latitude[n], imp.pixel_cloud.longitude[n],
                     imp.pixel_cloud.height[n], imp.pixel_cloud.pixel_area[n],
                     imp.pixel_cloud.classification[n])
    /\ IsNum(px.pixel_cloud.classification[n])
    /\ px.pixel_cloud.classification[n].v \in
          (self.interior_water_classes \cup self.water_edge_classes
              \cup self.land_edge_classes \cup self.dark_water_classes)

(* a valid point of a recognized class whose cell indices are in the       *)
(* grid's range                                                            *)
InGrid(self, px, imp, n) ==
    /\ ValidRecognized(self, px, imp, n)
    /\ PointCell(self.grid, self.resolution, Located(px, imp), n) \in Cells(self.grid)

(* the places <<cell, position>> of the bin map that hold point n *)
Places(self, n) ==
    {p \in Cells(self.grid) \X (1..MaxPoints + 1) :
        p[2] <= Len(self.proj_mapping[p[1]]) /\ self.proj_mapping[p[1]][p[2]] = n}

(* all places of the bin map: as many as the sum of the lists' lengths *)
AllPlaces(self) ==
    {p \in Cells(self.grid) \X (1..MaxPoints + 1) : p[2] <= Len(self.proj_mapping[p[1]])}

Mapped == pc # "new" /\ raster_proc.proj_mapping # None

(* C1 as stated: every valid, class-recognized point is in exactly one     *)
(* cell's list, the lists hold only points whose indices are in range, and *)
(* the lengths of the lists sum to the number of valid, recognized points  *)
C1_EveryValidPointBinned ==
    Mapped =>
        LET N == NumPoints(pixc)
            src == Located(pixc, improved_geoloc_pixc)
        IN  /\ \A n \in 1..N :
                ValidRecognized(raster_proc, pixc, improved_geoloc_pixc, n) => Cardinality(Places(raster_proc, n)) = 1
            /\ \A p \in AllPlaces(raster_proc) :
                PointCell(raster_proc.grid, raster_proc.resolution, src,
                          raster_proc.proj_mapping[p[1]][p[2]]) \in Cells(raster_proc.grid)
            /\ Cardinality(AllPlaces(raster_proc))
                 = Cardinality({n \in 1..N : ValidRecognized(raster_proc, pixc, improved_geoloc_pixc, n)})

(* C1, amended: the bin map partitions the valid, class-recognized points  *)
(* whose computed indices are in range: each is in the list of its own     *)
(* cell, once, and in no other; no other point is in any list; the lengths *)
(* of the lists sum to the number of such points                           *)
C1_BinMapPartition ==
    Mapped =>
        LET N == NumPoints(pixc)
            src == Located(pixc, improved_geoloc_pixc)
            In(n) == InGrid(raster_proc, pixc, improved_geoloc_pixc, n)
        IN  /\ \A n \in 1..N :
                IF In(n)
                THEN /\ Cardinality(Places(raster_proc, n)) = 1
                     /\ \A p \in Places(raster_proc, n) :
                            p[1] = PointCell(raster_proc.grid, raster_proc.resolution, src, n)
                ELSE Places(raster_proc, n) = {}
            /\ \A p \in AllPlaces(raster_proc) : raster_proc.proj_mapping[p[1]][p[2]] \in 1..N
            /\ Cardinality(AllPlaces(raster_proc)) = Cardinality({n \in 1..N : In(n)})

(* a pass binned one point and left a valid, recognized point of indices   *)
(* out of range in no cell                                                 *)
C1_Witness ==
    /\ Mapped
    /\ \E n, m \in 1..NumPoints(pixc) :
        /\ InGrid(raster_proc, pixc, improved_geoloc_pixc, n)
        /\ Places(raster_proc, n) # {}
        /\ ValidRecognized(raster_proc, pixc, improved_geoloc_pixc, m)
        /\ ~InGrid(raster_proc, pixc, improved_geoloc_pixc, m)
        /\ Places(raster_proc, m) = {}

(* the points a pass binned into cell c *)
Contributors(c) ==
    {n \in 1..NumPoints(pixc) :
        /\ InGrid(raster_proc, pixc, improved_geoloc_pixc, n)
        /\ PointCell(raster_proc.grid, raster_proc.resolution,
                     Located(pixc, improved_geoloc_pixc), n) = c}

Rasterized == pc # "new" /\ product.k = "product"

(* C3: after a rasterize pass every cell no valid, class-recognized point  *)
(* is mapped to holds the fill marker in every channel of the product,     *)
(* the corrected height and (debug mode) the classification included       *)
C3_EmptyCellsFill ==
    Rasterized =>
        /\ (Channels \ {"longitude", "latitude", "classification"}) \subseteq product.variables
        /\ product.debug_flag => "classification" \in product.variables
        /\ \A c \in Cells(product.grid) :
              Contributors(c) = {} =>
                  \A ch \in product.variables : ProductValue(product, ch, c) = Masked

(* a populated product with a cell that holds a height and a cell without  *)
(* points                                                                  *)
C3_Witness ==
    /\ Rasterized
    /\ product.populated
    /\ product.debug_flag
    /\ \E c, d \in Cells(product.grid) :
        /\ Contributors(c) = {}
        /\ Contributors(d) # {}
        /\ ProductValue(product, "wse", d) # Masked
        /\ ProductValue(product, "wse", c) = Masked

(* the sum of pixel_area * water_frac over a set of points *)
RECURSIVE WaterAreaOf(_)
WaterAreaOf(S) ==
    IF S = {} THEN 0
    ELSE LET n == CHOOSE m \in S : TRUE
         IN  pixc.pixel_cloud.pixel_area[n].v * pixc.pixel_cloud.water_frac[n].v
                 + WaterAreaOf(S \ {n})

(* the dark-classified points among a cell's contributors *)
DarkContributors(c) ==
    {n \in Contributors(c) :
        pixc.pixel_cloud.classification[n].v \in raster_proc.dark_water_classes}

(* C4: the dark-water fraction of a populated cell is the water area of    *)
(* its dark-classified points over the water area of all its points, and   *)
(* exactly 0 when the latter is 0, whatever its dark-classified points     *)
C4_DarkFraction ==
    (Rasterized /\ product.populated) =>
        \A c \in Cells(product.grid) :
            Contributors(c) # {} =>
                ProductValue(product, "dark_frac", c)
                    = IF WaterAreaOf(Contributors(c)) = 0 THEN Num(0)
                      ELSE [k |-> "ratio",
                            dark_area |-> WaterAreaOf(DarkContributors(c)),
                            total_area |-> WaterAreaOf(Contributors(c))]

(* a populated cell without water area whose dark-classified points have   *)
(* some: its dark-water fraction is 0                                      *)
C4_Witness ==
    /\ Rasterized
    /\ product.populated
    /\ \E c \in Cells(product.grid) :
        /\ DarkContributors(c) # {}
        /\ WaterAreaOf(DarkContributors(c)) # 0
        /\ WaterAreaOf(Contributors(c)) = 0
        /\ ProductValue(product, "dark_frac", c) = Num(0)

(* C5: two calls of rasterize with the same pixel cloud, the same improved *)
(* geolocations and the same configuration give the same grid descriptor,  *)
(* the same bin map and the same product, channel by channel: nothing the  *)
(* first call left on the processor shows in the second                    *)
C5_Idempotent ==
    pc = "twice" =>
        /\ Len(log) = 2
        /\ log[2].grid = log[1].grid
        /\ log[2].proj_mapping = log[1].proj_mapping
        /\ log[2].ret = log[1].ret
        /\ product = log[1].ret

(* a second call on a processor that holds the populated arrays and the    *)
(* bin map of a first call                                                 *)
C5_Witness ==
    /\ pc = "twice"
    /\ product.populated
    /\ log[1].proj_mapping # None
    /\ \E c \in Cells(product.grid) :
        /\ Len(log[1].proj_mapping[c]) > 0
        /\ ProductValue(log[1].ret, "wse", c) # Masked
        /\ ProductValue(log[2].ret, "wse", c) # Masked

(* a point's classification is in none of the processor's class sets *)
Unrecognized(n) ==
    ~(/\ IsNum(pixc.pixel_cloud.classification[n])
      /\ pixc.pixel_cloud.classification[n].v \in
            (raster_proc.interior_water_classes \cup raster_proc.water_edge_classes
                \cup raster_proc.land_edge_classes \cup raster_proc.dark_water_classes))

(* point n is among the points a cell's value of a channel is made of *)
Contributes(n, ch, c) ==
    LET v == ProductValue(product, ch, c)
    IN  IF ch \in ScalarMeans
        THEN v.k = "simple" /\ \E m \in 1..Len(v.of) : v.of[m].idx = n
        ELSE IF ch = "wse_uncert"
        THEN v.k = "height_with_uncerts" /\ \E m \in 1..Len(v.flat_ifgram) : v.flat_ifgram[m].idx = n
        ELSE FALSE

(* C8: a point of a class in none of the processor's class sets is in no   *)
(* cell's list and in no cell's value of any channel, and is not counted;  *)
(* a pixel cloud of such points only gives a product that is fill in every *)
(* variable and cell                                                       *)
C8_UnrecognizedExcluded ==
    (Rasterized /\ product.populated) =>
        /\ \A n \in 1..NumPoints(pixc) :
              Unrecognized(n) =>
                  /\ Places(raster_proc, n) = {}
                  /\ \A c \in Cells(product.grid) :
                        \A ch \in product.variables : ~Contributes(n, ch, c)
        /\ \A c \in Cells(product.grid) :
              Contributors(c) # {} =>
                  ProductValue(product, "n_area_pix", c) = Num(Cardinality(Contributors(c)))
        /\ (\A n \in 1..NumPoints(pixc) : Unrecognized(n)) =>
              \A c \in Cells(product.grid) :
                  \A ch \in product.variables : ProductValue(product, ch, c) = Masked

(* a pass over a pixel cloud of unrecognized points only *)
C8_Witness ==
    /\ Rasterized
    /\ product.populated
    /\ NumPoints(pixc) >= 2
    /\ \A n \in 1..NumPoints(pixc) :
        /\ Unrecognized(n)
        /\ get_pixc_mask(pixc)[n]
        /\ PointCell(product.grid, raster_proc.resolution, pixc, n) \in Cells(product.grid)

(* a value that is NaN or infinite: NaN itself, or what an aggregation     *)
(* routine makes of a cell none of whose points is good for it (a mean or  *)
(* a weighted sum over no value)                                           *)
NotFinite(v) ==
    \/ v.k = "nan"
    \/ /\ v.k \in {"height_with_uncerts", "area_with_uncert", "height_uncert_std"}
       /\ \A m \in 1..Len(v.good) : ~v.good[m]
    \/ v.k = "quotient" /\ v.num.k = "area_with_uncert"
         /\ \A m \in 1..Len(v.num.good) : ~v.num.good[m]

(* C12: in the product of a pass no cell of the height uncertainty or of   *)
(* the water-fraction uncertainty is NaN or infinite: such a value has     *)
(* been replaced by the fill marker                                        *)
C12_UncertaintiesFinite ==
    (Rasterized /\ product.populated) =>
        \A c \in Cells(product.grid) :
            /\ ~NotFinite(ProductValue(product, "wse_uncert", c))
            /\ ~NotFinite(ProductValue(product, "water_frac_uncert", c))

(* the points of cell c's list that pass the mask of the pass *)
Passing(c) ==
    {raster_proc.proj_mapping[c][m] : m \in {k \in 1..Len(raster_proc.proj_mapping[c]) :
        PassMask(raster_proc, pixc, improved_geoloc_pixc)[raster_proc.proj_mapping[c][k]]}}

(* the points a cell's value of a channel is made of: those a mean is      *)
(* taken of, those the good-mask of an aggregation routine selects         *)
ContributorsOf(ch, c) ==
    LET v == ProductValue(product, ch, c)
        list == raster_proc.proj_mapping[c]
    IN  IF v.k = "simple" THEN {v.of[m].idx : m \in 1..Len(v.of)}
        ELSE IF v.k \in {"height_with_uncerts", "area_with_uncert", "height_uncert_std"}
        THEN {list[m] : m \in {k \in 1..Len(v.good) : v.good[k]}}
        ELSE {}

HasClass(n, classes) == IsIn(pixc.pixel_cloud.classification[n], classes)

(* every channel but the height's is made of the passing points of the     *)
(* cell's list, and these are counted                                      *)
OtherChannelsOfPassing(c) ==
    /\ \A ch \in ScalarMeans \cup {"water_area", "water_area_uncert", "sig0_uncert"} :
           ContributorsOf(ch, c) = Passing(c)
    /\ ProductValue(product, "n_area_pix", c) = Num(Cardinality(Passing(c)))
    /\ Len(ProductValue(product, "water_area", c).good) = Len(raster_proc.proj_mapping[c])

(* C16 as stated: in a populated cell every channel but the height's is    *)
(* made of the points of the cell's list that pass the mask, and the       *)
(* height of these without the ones of a land-edge class, all others       *)
(* included                                                                *)
C16_HeightAllButLandEdge ==
    (Rasterized /\ product.populated) =>
        \A c \in Cells(product.grid) :
            Len(raster_proc.proj_mapping[c]) # 0 =>
                /\ OtherChannelsOfPassing(c)
                /\ ContributorsOf("wse_uncert", c)
                     = {n \in Passing(c) : ~HasClass(n, raster_proc.land_edge_classes)}

(* C16, amended: in a populated cell every channel but the height's is     *)
(* made of the points of the cell's list that pass the mask, and the       *)
(* height of these that are of an interior-water or a water-edge class;    *)
(* under the default class sets these are the ones not of a land-edge      *)
(* class                                                                   *)
C16_HeightInteriorAndWaterEdge ==
    (Rasterized /\ product.populated) =>
        \A c \in Cells(product.grid) :
            Len(raster_proc.proj_mapping[c]) # 0 =>
                /\ OtherChannelsOfPassing(c)
                /\ ContributorsOf("wse_uncert", c)
                     = {n \in Passing(c) : HasClass(n, raster_proc.interior_water_classes
                                                        \cup raster_proc.water_edge_classes)}
                /\ ProductValue(product, "n_wse_pix", c)
                     = Num(Cardinality(ContributorsOf("wse_uncert", c)))
                /\ raster_proc.dark_water_classes \subseteq
                        (raster_proc.interior_water_classes \cup raster_proc.water_edge_classes
                            \cup raster_proc.land_edge_classes)
                     => ContributorsOf("wse_uncert", c)
                          = {n \in Passing(c) : ~HasClass(n, raster_proc.land_edge_classes)}

(* a cell of open water and a land edge under the default class sets: the  *)
(* land edge is in the area and not in the height                          *)
C16_Witness ==
    /\ Rasterized
    /\ product.populated
    /\ raster_proc.dark_water_classes = config_defaults.dark_water_classes
    /\ \E c \in Cells(product.grid) :
        /\ Cardinality(Passing(c)) = 2
        /\ Cardinality(ContributorsOf("wse_uncert", c)) = 1
        /\ ContributorsOf("water_area", c) = Passing(c)
        /\ \E n \in Passing(c) : HasClass(n, raster_proc.land_edge_classes)

(* the validity of point n in the claim's words *)
ValidAsStated(px, n) ==
    LET lat == px.pixel_cloud.latitude[n]
        lon == px.pixel_cloud.longitude[n]
    IN  /\ lat # Masked /\ lat # NaN
        /\ lon # Masked /\ lon # NaN
        /\ IsNum(lat) => (lat.v > LatLower /\ lat.v < LatUpper)
        /\ px.pixel_cloud.pixel_area[n] # Masked
        /\ px.pixel_cloud.height[n] # Masked
        /\ px.pixel_cloud.classification[n] # NaN

(* C17: get_pixc_mask marks a point valid exactly when its latitude and    *)
(* longitude are neither masked nor NaN, its latitude is strictly between  *)
(* -80 and 84, its pixel area and height are not masked and its class is   *)
(* not NaN, whatever the classes the processor defines; rasterize bins the *)
(* points it marks valid that are of a defined class, and no other         *)
C17_ValidityFilter ==
    /\ \A n \in 1..NumPoints(pixc) : get_pixc_mask(pixc)[n] <=> ValidAsStated(pixc, n)
    /\ (Rasterized /\ product.populated) =>
          \A n \in 1..NumPoints(pixc) :
              /\ Places(raster_proc, n) # {} =>
                    (ValidAsStated(pixc, n) /\ ~Unrecognized(n))
              /\ (ValidAsStated(pixc, n) /\ ~Unrecognized(n)
                    /\ PointCell(raster_proc.grid, raster_proc.resolution, pixc, n)
                          \in Cells(raster_proc.grid))
                  => Places(raster_proc, n) # {}
              /\ (ValidAsStated(pixc, n) /\ Unrecognized(n)) =>
                    (get_pixc_mask(pixc)[n] /\ Places(raster_proc, n) = {})

(* a pass over a point at the upper polar bound, left out, and a point one *)
(* degree south of it with a NaN height, binned                            *)
C17_Witness ==
    /\ Rasterized
    /\ product.populated
    /\ NumPoints(pixc) = 2
    /\ pixc.pixel_cloud.latitude[1] = Num(LatUpper)
    /\ Places(raster_proc, 1) = {}
    /\ pixc.pixel_cloud.latitude[2] = Num(LatUpper - 1)
    /\ pixc.pixel_cloud.height[2] = NaN
    /\ Places(raster_proc, 2) # {}

(* the channels whose values name the points they are made of *)
IndexedChannels == ScalarMeans \cup {"wse_uncert", "water_area", "water_area_uncert", "sig0_uncert"}

(* point n is valid in the raw and in the improved geolocations and of a   *)
(* class the processor defines                                             *)
ValidInBoth(n) ==
    /\ get_pixc_mask(pixc)[n]
    /\ ~Unrecognized(n)
    /\ get_pixc_mask(improved_geoloc_pixc)[n]

(* C19: in a pass with improved geolocations the mask is, point by point,  *)
(* the conjunction of the raw validity, the class recognition and the      *)
(* improved validity; a point that fails one of them is in no cell's list  *)
(* and among the points of no value of an indexed channel, and a point     *)
(* that passes all is binned at its improved position and aggregated there *)
C19_MaskConjunction ==
    (Rasterized /\ product.populated /\ improved_geoloc_pixc # None) =>
        \A n \in 1..NumPoints(pixc) :
            /\ PassMask(raster_proc, pixc, improved_geoloc_pixc)[n] <=> ValidInBoth(n)
            /\ ~ValidInBoth(n) =>
                  /\ Places(raster_proc, n) = {}
                  /\ \A c \in Cells(product.grid) : \A ch \in IndexedChannels :
                         n \notin ContributorsOf(ch, c)
            /\ ValidInBoth(n) =>
                  LET c == PointCell(raster_proc.grid, raster_proc.resolution,
                                     improved_geoloc_pixc, n)
                  IN  c \in Cells(raster_proc.grid) =>
                          /\ \E p \in Places(raster_proc, n) : p[1] = c
                          /\ n \in ContributorsOf("water_area", c)
                          /\ n \in ContributorsOf("cross_track", c)

(* a pass with improved geolocations: the first point has no raw latitude  *)
(* and a valid improved one, the second a raw latitude and no improved     *)
(* one, a third is valid in both; only the third is binned                 *)
C19_Witness ==
    /\ Rasterized
    /\ product.populated
    /\ improved_geoloc_pixc # None
    /\ NumPoints(pixc) >= 2
    /\ \E n \in 1..NumPoints(pixc) :
        /\ ~get_pixc_mask(pixc)[n] /\ get_pixc_mask(improved_geoloc_pixc)[n]
        /\ Places(raster_proc, n) = {}
    /\ \E n \in 1..NumPoints(pixc) :
        /\ ValidInBoth(n)
        /\ Places(raster_proc, n) # {}

(* C20: after a pass, in every cell whose list is not empty, the count of  *)
(* height contributors and the count of area contributors are numbers with *)
(* 0 <= n_wse_pix <= n_area_pix <= the length of the cell's list; the      *)
(* height contributors are area contributors                               *)
C20_CountsOrdered ==
    (Rasterized /\ product.populated) =>
        \A c \in Cells(product.grid) :
            Len(raster_proc.proj_mapping[c]) # 0 =>
                LET n_wse_pix == ProductValue(product, "n_wse_pix", c)
                    n_area_pix == ProductValue(product, "n_area_pix", c)
                IN  /\ IsNum(n_wse_pix) /\ IsNum(n_area_pix)
                    /\ 0 <= n_wse_pix.v
                    /\ n_wse_pix.v <= n_area_pix.v
                    /\ n_area_pix.v <= Len(raster_proc.proj_mapping[c])
                    /\ ContributorsOf("wse_uncert", c) \subseteq ContributorsOf("water_area", c)

(* a pass with a cell of one height contributor and two area contributors  *)
C20_Witness ==
    /\ Rasterized
    /\ product.populated
    /\ \E c \in Cells(product.grid) :
        /\ Len(raster_proc.proj_mapping[c]) = 2
        /\ ProductValue(product, "n_wse_pix", c) = Num(1)
        /\ ProductValue(product, "n_area_pix", c) = Num(2)

----------------------------------------------------------------------------
(* properties of the grid projector (SpecGrid) *)

Projected == pc # "new" /\ raster_proc.grid # None

C6_ZoneWrapsBandClamps ==
    (Projected /\ raster_proc.grid.k = "utm") =>
        LET g == raster_proc.grid
            z == g.centroid_zone
            a == raster_proc.utm_zone_adjust
            bi == BandFind(g.centroid_band) + raster_proc.latitude_band_adjust
            last == Len(UTM_VALID_BANDS) - 1
        IN  /\ z \in 1..60
            /\ g.utm_zone \in 1..60
            /\ (g.utm_zone - (z + a)) % 60 = 0
            /\ (z = 60 /\ a = 1) => g.utm_zone = 1
            /\ BandFind(g.centroid_band) \in 0..last
            /\ g.mgrs_band = UTM_VALID_BANDS[(IF bi < 0 THEN 0 ELSE IF bi > last THEN last ELSE bi) + 1]
            /\ raster_proc.latitude_band_adjust = -99 => g.mgrs_band = "C"

(* a scene centred in zone 60 projected with a zone adjustment of +1 and a *)
(* band adjustment of -99: zone 1, band C                                  *)
C6_Witness ==
    /\ Projected
    /\ raster_proc.grid.k = "utm"
    /\ raster_proc.grid.centroid_zone = 60
    /\ raster_proc.utm_zone_adjust = 1
    /\ raster_proc.grid.utm_zone = 1
    /\ raster_proc.latitude_band_adjust = -99
    /\ raster_proc.grid.centroid_band # "C"
    /\ raster_proc.grid.mgrs_band = "C"

----------------------------------------------------------------------------
(* properties of process (Spec) *)

KnownProjection == runtime_config.output_sampling_grid_type \in {"utm", "geo"}

(* C7: with a pixel cloud of no points and a projection type the processor *)
(* knows, process raises nothing; the coarse pass and the final pass each  *)
(* return an unpopulated product; the final product's grid is the one      *)
(* create_projection_from_bbox computes from the scene's corners, and      *)
(* every variable of it is fill in every cell                              *)
C7_EmptyPixelCloud ==
    (NumPoints(pixc) = 0 /\ KnownProjection) =>
        /\ pc # "raised"
        /\ \A m \in 1..Len(log) : log[m] # "geoloc_raster"
        /\ coarse # None => (coarse.ret.k = "product" /\ ~coarse.ret.populated)
        /\ pc = "done" =>
            LET final == ProcessorOf(runtime_config, algorithmic_config,
                                     runtime_config.raster_resolution)
                g == create_projection_from_bbox(final, Corners(pixc))
            IN  /\ product.k = "product"
                /\ ~product.populated
                /\ product.grid.size_x = g.size_x
                /\ product.grid.size_y = g.size_y
                /\ product.grid = g
                /\ g.size_x >= 1 /\ g.size_y >= 1
                /\ \A ch \in product.variables : \A c \in Cells(g) :
                       ProductValue(product, ch, c) = Masked

(* process done on a pixel cloud of no points after an empty coarse raster *)
C7_Witness ==
    /\ NumPoints(pixc) = 0
    /\ pc = "done"
    /\ log = <<"coarse", "skip", "final">>
    /\ ~coarse.ret.populated
    /\ ~product.populated
    /\ product.grid.size_x > 1

(* the bin map of the raw geolocations of the valid, recognized points *)
RawMapping(self, px) ==
    [c \in Cells(self.grid) |->
        SelectSeq([n \in 1..NumPoints(px) |-> n],
                  LAMBDA n : /\ ValidRecognized(self, px, None, n)
                             /\ PointCell(self.grid, self.resolution, px, n) = c)]

(* the heights of the product are flattened at the raw positions *)
RawTargets(p, px) ==
    \A c \in Cells(p.grid) :
        LET h == ProductValue(p, "wse_uncert", c)
        IN  h # Masked =>
                \A m \in 1..Len(h.flat_ifgram) :
                    LET n == h.flat_ifgram[m].idx
                    IN  h.flat_ifgram[m].target
                            = <<px.pixel_cloud.latitude[n], px.pixel_cloud.longitude[n],
                                px.pixel_cloud.height[n]>>

(* C9 as stated: with do_improved_geolocation false there is no coarse     *)
(* rasterize and no solver call, and the one final pass bins the points by *)
(* their raw geolocation and takes their raw positions as 3-D targets      *)
C9_RawGeolocationAlways ==
    (pc # "start" /\ ~algorithmic_config.do_improved_geolocation) =>
        /\ coarse = None
        /\ \A m \in 1..Len(log) : log[m] = "final"
        /\ Len(log) <= 1
        /\ (pc = "done" /\ NumPoints(pixc) > 0) =>
            /\ raster_proc.proj_mapping = RawMapping(raster_proc, pixc)
            /\ RawTargets(product, pixc)

(* C9, amended: with do_improved_geolocation false there is no coarse      *)
(* rasterize and no solver call; the one final pass bins the points by     *)
(* their raw geolocation and takes their raw positions as 3-D targets when *)
(* process was given no improved geolocations at construction              *)
C9_RawGeolocationUnlessGiven ==
    (pc # "start" /\ ~algorithmic_config.do_improved_geolocation) =>
        /\ coarse = None
        /\ \A m \in 1..Len(log) : log[m] = "final"
        /\ Len(log) <= 1
        /\ (pc = "done" /\ NumPoints(pixc) > 0 /\ improved_geoloc_pixc = None) =>
            /\ raster_proc.proj_mapping = RawMapping(raster_proc, pixc)
            /\ RawTargets(product, pixc)

(* process done without improved geolocation, a height aggregated *)
C9_Witness ==
    /\ pc = "done"
    /\ ~algorithmic_config.do_improved_geolocation
    /\ improved_geoloc_pixc = None
    /\ log = <<"final">>
    /\ NumPoints(pixc) > 0
    /\ \E c \in Cells(product.grid) :
        /\ Len(raster_proc.proj_mapping[c]) > 0
        /\ ProductValue(product, "wse_uncert", c) # Masked

(* C10: with a projection type other than 'utm' and 'geo' the first        *)
(* rasterize of the run, coarse or final, raises: no grid and no bin map   *)
(* is on its processor, no product came of it, nothing runs after it and   *)
(* process returns no product                                              *)
C10_UnknownProjectionFatal ==
    ~KnownProjection =>
        /\ pc \in {"start", "parsed", "raised"}
        /\ product = None
        /\ Len(log) <= 1
        /\ Len(log) = 1 => pc = "raised"
        /\ coarse # None =>
            /\ pc = "raised"
            /\ coarse.ret.k = "raised"
            /\ coarse.self.grid = None
            /\ coarse.self.proj_mapping = None
            /\ raster_proc = None
        /\ raster_proc # None =>
            /\ pc = "raised"
            /\ log = <<"final">>
            /\ raster_proc.grid = None
            /\ raster_proc.proj_mapping = None

(* the coarse pass of a run with an unknown projection type raised *)
C10_Witness ==
    /\ ~KnownProjection
    /\ pc = "raised"
    /\ log = <<"coarse">>
    /\ coarse.ret.k = "raised"
    /\ NumPoints(pixc) > 0

(* the coarse pass returned a raster with no populated cell *)
CoarseEmpty == coarse # None /\ coarse.ret.k = "product" /\ is_empty(coarse.ret)

(* what the final pass makes of the raw geolocations *)
RawFinal == rasterize(ProcessorOf(runtime_config, algorithmic_config, runtime_config.raster_resolution), pixc, None)

(* C13 as stated: after a coarse pass whose raster has no populated cell   *)
(* the solver is not called, nothing is raised, and the final pass is the  *)
(* pass over the raw geolocations                                          *)
C13_EmptyCoarseRawAlways ==
    CoarseEmpty =>
        /\ \A m \in 1..Len(log) : log[m] # "geoloc_raster"
        /\ pc # "raised"
        /\ pc = "done" =>
            /\ log = <<"coarse", "skip", "final">>
            /\ raster_proc = RawFinal.self
            /\ product = RawFinal.ret

(* C13, amended: after a coarse pass whose raster has no populated cell    *)
(* the solver is not called, nothing is raised and the geolocations given  *)
(* at construction are kept; the final pass is the pass over the raw       *)
(* geolocations when none were given                                       *)
C13_EmptyCoarseRawUnlessGiven ==
    CoarseEmpty =>
        /\ \A m \in 1..Len(log) : log[m] # "geoloc_raster"
        /\ pc # "raised"
        /\ improved_geoloc_pixc = coarse.mapped
        /\ pc = "done" =>
            /\ log = <<"coarse", "skip", "final">>
            /\ improved_geoloc_pixc = None =>
                /\ raster_proc = RawFinal.self
                /\ product = RawFinal.ret

(* process done after an empty coarse raster of a pixel cloud with points  *)
C13_Witness ==
    /\ CoarseEmpty
    /\ pc = "done"
    /\ NumPoints(pixc) > 0
    /\ improved_geoloc_pixc = None
    /\ log = <<"coarse", "skip", "final">>
    /\ product = RawFinal.ret

(* the final pass: rasterize at the configured resolution, with the        *)
(* geolocations process holds when it starts                               *)
FinalPass == rasterize(ProcessorOf(runtime_config, algorithmic_config, runtime_config.raster_resolution), pixc, improved_geoloc_pixc)

(* the number of entries of the log that are the given step *)
Count(step) == Cardinality({m \in 1..Len(log) : log[m] = step})

(* C14: a run of process has at most one coarse pass, which is its first   *)
(* step and is over before the final pass starts; a run that does not fail *)
(* ends with exactly one final pass, after which nothing runs; no product  *)
(* is there before the final pass, and the product returned is the final   *)
(* pass's, at the configured resolution, not the coarse raster             *)
C14_PassOrdering ==
    /\ [](/\ Count("coarse") <= 1
          /\ Count("final") <= 1
          /\ \A m \in 1..Len(log) : log[m] = "coarse" => m = 1
          /\ \A m \in 1..Len(log) : log[m] = "final" => m = Len(log)
          /\ Count("coarse") = 1 <=> coarse # None
          /\ pc # "done" => product = None
          /\ pc = "done" =>
                /\ Count("final") = 1
                /\ Count("coarse") = 1 <=> algorithmic_config.do_improved_geolocation
                /\ product.k = "product"
                /\ product = FinalPass.ret
                /\ raster_proc = FinalPass.self
                /\ product.resolution = raster_proc.resolution
                /\ coarse # None =>
                    /\ coarse.ret.k = "product"
                    /\ coarse.self.resolution = algorithmic_config.improved_geolocation_smooth_factor * raster_proc.resolution
                    /\ product # coarse.ret)
    /\ [][pc = "coarse" => pc' = "ready"]_vars
    /\ [][pc \notin {"done", "raised"}]_vars

(* process done after a coarse pass, a refinement and the final pass, the  *)
(* product populated                                                       *)
C14_Witness ==
    /\ pc = "done"
    /\ log = <<"coarse", "geoloc_raster", "final">>
    /\ product = FinalPass.ret
    /\ product.populated
    /\ coarse.ret.populated

(* the run refined the geolocations *)
Refinement == \E m \in 1..Len(log) : log[m] = "geoloc_raster"

(* the bin map of the valid, recognized points at the geolocations of imp *)
ImprovedMapping(self, px, imp) ==
    [c \in Cells(self.grid) |->
        SelectSeq([n \in 1..NumPoints(px) |-> n],
                  LAMBDA n : /\ ValidRecognized(self, px, imp, n)
                             /\ PointCell(self.grid, self.resolution, imp, n) = c)]

(* the heights aggregated into the product are those of src *)
AggregatedHeights(p, self, src) ==
    \A c \in Cells(p.grid) :
        LET h == ProductValue(p, "wse_uncert", c)
        IN  h # Masked =>
                /\ Len(h.height) = Len(self.proj_mapping[c])
                /\ \A m \in 1..Len(h.height) :
                       h.height[m] = src.pixel_cloud.height[self.proj_mapping[c][m]]

(* the final pass after a refinement: the processor has the configured     *)
(* resolution and buffer, the points are binned at their refined           *)
(* positions, and those are the 3-D targets                                *)
RefinedFinalPass ==
    LET final == ProcessorOf(runtime_config, algorithmic_config, runtime_config.raster_resolution)
    IN  /\ raster_proc.resolution = final.resolution
        /\ raster_proc.buffer_size = algorithmic_config.buffer_size
        /\ raster_proc.grid = create_projection_from_bbox(final, Corners(pixc))
        /\ product.grid = raster_proc.grid
        /\ product.resolution = final.resolution
        /\ NumPoints(pixc) > 0 =>
            /\ raster_proc.proj_mapping = ImprovedMapping(raster_proc, pixc, improved_geoloc_pixc)
            /\ RawTargets(product, improved_geoloc_pixc)

(* C15 as stated: after a refinement the final pass runs at the configured *)
(* resolution and buffer, bins the points at their refined positions,      *)
(* takes these as 3-D targets, and aggregates the refined heights          *)
C15_RefinedValuesAggregated ==
    (Refinement /\ pc = "done") =>
        /\ RefinedFinalPass
        /\ AggregatedHeights(product, raster_proc, improved_geoloc_pixc)

(* C15, amended: after a refinement the final pass runs at the configured  *)
(* resolution and buffer, bins the points at their refined positions and   *)
(* takes these as 3-D targets; the heights it aggregates are the raw ones  *)
C15_RefinedBinsRawValues ==
    (Refinement /\ pc = "done") =>
        /\ RefinedFinalPass
        /\ AggregatedHeights(product, raster_proc, pixc)

(* process done after a refinement that moved a point to another cell, its *)
(* height aggregated there                                                 *)
C15_Witness ==
    /\ pc = "done"
    /\ Refinement
    /\ NumPoints(pixc) > 0
    /\ algorithmic_config.buffer_size = 1
    /\ \E c \in Cells(product.grid) :
        /\ Len(raster_proc.proj_mapping[c]) > 0
        /\ ProductValue(product, "wse_uncert", c) # Masked
        /\ \E m \in 1..Len(raster_proc.proj_mapping[c]) :
            LET n == raster_proc.proj_mapping[c][m]
            IN  /\ ProductValue(product, "wse_uncert", c).good[m]
                /\ PointCell(raster_proc.grid, raster_proc.resolution, pixc, n) # c
                /\ improved_geoloc_pixc.pixel_cloud.height[n] # pixc.pixel_cloud.height[n]

(* the fields of the points that a refinement replaces *)
GeolocationFields == {"latitude", "longitude", "height"}

(* C18: the pixel cloud is the same throughout a run; after a refinement   *)
(* the refined collection has the pixel cloud's per-point fields, scene    *)
(* corners and metadata, and differs from it in latitude, longitude and    *)
(* height only, each of which has as many entries as the pixel cloud has   *)
(* points                                                                  *)
C18_RefinementFrame ==
    /\ [][pixc' = pixc]_vars
    /\ [](Refinement =>
            /\ DOMAIN improved_geoloc_pixc = DOMAIN pixc
            /\ \A key \in DOMAIN pixc \ {"pixel_cloud"} : improved_geoloc_pixc[key] = pixc[key]
            /\ DOMAIN improved_geoloc_pixc.pixel_cloud = DOMAIN pixc.pixel_cloud
            /\ \A field \in DOMAIN pixc.pixel_cloud \ GeolocationFields :
                   improved_geoloc_pixc.pixel_cloud[field] = pixc.pixel_cloud[field]
            /\ \A field \in GeolocationFields :
                   Len(improved_geoloc_pixc.pixel_cloud[field]) = NumPoints(pixc)
            /\ Corners(improved_geoloc_pixc) = Corners(pixc)
            /\ pc = "done" => product.scene = SceneOf(pixc))

(* process done after a refinement that changed the latitude and the       *)
(* height of two points                                                    *)
C18_Witness ==
    /\ pc = "done"
    /\ Refinement
    /\ NumPoints(pixc) = 2
    /\ \A n \in 1..2 :
        /\ improved_geoloc_pixc.pixel_cloud.latitude[n] # pixc.pixel_cloud.latitude[n]
        /\ improved_geoloc_pixc.pixel_cloud.height[n] # pixc.pixel_cloud.height[n]
        /\ improved_geoloc_pixc.pixel_cloud.pixel_area[n] = pixc.pixel_cloud.pixel_area[n]

----------------------------------------------------------------------------
(* SpecConfig: process over configurations that lack options *)

(* an algorithmic configuration that sets every option to another value    *)
(* than its default                                                        *)
custom_config ==
    [buffer_size |-> 1,
     height_agg_method |-> "simple",
     area_agg_method |-> "simple",
     interior_water_classes |-> {PIXC_CLASSES.open_water},
     water_edge_classes |-> {PIXC_CLASSES.water_near_land},
     land_edge_classes |-> {PIXC_CLASSES.land_near_water},
     dark_water_classes |-> {PIXC_CLASSES.dark_water},
     do_improved_geolocation |-> FALSE,
     improved_geolocation_method |-> "none",
     improved_geolocation_smooth_factor |-> 2,
     debug_flag |-> TRUE]

(* the algorithmic configurations: every option set, one left out, none set *)
PartialAlgorithmicConfigs ==
    {custom_config, Restrict(custom_config, {})}
    \cup {Restrict(custom_config, DOMAIN custom_config \ {key}) : key \in DOMAIN custom_config}

(* the runtime configurations: every option set, or one left out *)
PartialRuntimeConfigs ==
    LET full == {[output_sampling_grid_type |-> p, raster_resolution |-> ArcsecPerDegree,
                  utm_zone_adjust |-> 0, latitude_band_adjust |-> 0] : p \in {"utm", "geo"}}
    IN  full \cup {Restrict(rt, RuntimeKeys \ {key}) : rt \in full, key \in RuntimeKeys}

ConfigPointKinds ==
    {Point(Num(0), Num(0), Num(5), Num(PIXC_CLASSES.open_water), Num(1), Num(1)),
     Point(Num(1), Num(1), Num(5), Num(PIXC_CLASSES.land), Num(1), Num(1))}

InitConfig ==
    /\ pc = "start"
    /\ runtime_config \in PartialRuntimeConfigs
    /\ algorithmic_config \in PartialAlgorithmicConfigs
    /\ pixc \in {MkPixc(points) : points \in Collections(ConfigPointKinds)}
    /\ improved_geoloc_pixc = None
    /\ raster_proc = None
    /\ coarse = None
    /\ product = None
    /\ log = <<>>

SpecConfig == InitConfig /\ [][Next]_vars

----------------------------------------------------------------------------
(* properties of process over partial configurations (SpecConfig) *)

RaisedKeyError == \E m \in 1..Len(log) : log[m] = "KeyError"

(* C11 as stated: whatever option is left unset, process does not raise,   *)
(* and the parsed configuration has every algorithmic option               *)
C11_NoOptionRequired ==
    /\ pc # "raised"
    /\ ~RaisedKeyError
    /\ pc # "start" => DOMAIN config_defaults \subseteq DOMAIN algorithmic_config

(* C11, amended: parse_config_defaults gives every option of the           *)
(* algorithmic configuration that is left unset its default and leaves the *)
(* options that are set as configured, and no pass raises for an unset     *)
(* algorithmic option; the options of the runtime configuration (the       *)
(* projection type, the resolution, the zone and band adjustments) have no *)
(* default: when one is unset the first pass raises KeyError before it     *)
(* builds a processor                                                      *)
C11_AlgorithmicOptionsDefault ==
    /\ [](pc # "start" => DOMAIN config_defaults \subseteq DOMAIN algorithmic_config)
    /\ [](HasRuntimeKeys(runtime_config) => (pc # "raised" /\ ~RaisedKeyError))
    /\ []((~HasRuntimeKeys(runtime_config) /\ Len(log) > 0) =>
            /\ log = <<"KeyError">>
            /\ pc = "raised"
            /\ raster_proc = None /\ coarse = None /\ product = None)
    /\ [][(pc = "start" /\ pc' = "parsed") =>
            \A key \in DOMAIN config_defaults :
                algorithmic_config'[key] =
                    IF key \in DOMAIN algorithmic_config THEN algorithmic_config[key]
                    ELSE config_defaults[key]]_vars
    /\ [][(pc = "parsed" /\ pc' = "done") =>
            /\ raster_proc'.buffer_size = algorithmic_config.buffer_size
            /\ raster_proc'.debug_flag = algorithmic_config.debug_flag
            /\ raster_proc'.height_agg_method = algorithmic_config.height_agg_method
            /\ raster_proc'.area_agg_method = algorithmic_config.area_agg_method
            /\ raster_proc'.dark_water_classes = algorithmic_config.dark_water_classes]_vars

(* a run done on a configuration whose buffer size was left unset and      *)
(* whose other options were set: the final processor has the default       *)
(* buffer and the configured debug flag and methods                        *)
C11_Witness ==
    /\ pc = "done"
    /\ algorithmic_config.buffer_size = config_defaults.buffer_size
    /\ algorithmic_config.debug_flag = custom_config.debug_flag
    /\ algorithmic_config.height_agg_method = custom_config.height_agg_method
    /\ raster_proc.buffer_size = config_defaults.buffer_size
    /\ raster_proc.debug_flag = custom_config.debug_flag
    /\ raster_proc.height_agg_method = custom_config.height_agg_method

====
